---- MODULE Spec2Model ----
(***************************************************************************)
(* BetterClock time client: the Session (BetterClockTimeClient) with its   *)
(* clock-correction engine, the server discovery engine and the subnet     *)
(* sweeper of betterclock_time/client.py.                                  *)
(*                                                                         *)
(* Numbers.  Python floats are modelled in fixed point: every duration and *)
(* offset (rtt, offset, desync, ewma) is an integer count of 1/100 ms, and *)
(* a float division rounds to the nearest such unit.  The monotonic clock  *)
(* (time.perf_counter) is an integer count of milliseconds; a reading that *)
(* is less than one millisecond after the previous one is the same count.  *)
(***************************************************************************)
EXTENDS Integers, Sequences, FiniteSets, TLC

VARIABLES
    \* ---- Session (BetterClockTimeClient.__init__) ----
    client_id,                \* self.client_id
    instance_id,              \* self.instance_id
    disconnected,             \* self.disconnected
    endpoint,                 \* base_url, connection_host, connection_port, local
    offset_initialized,       \* self.offset_initialized
    offset_display_ms,        \* self.offset_display_ms      (1/100 ms)
    offset_desync_ms,         \* self.offset_desync_ms       (1/100 ms)
    rtt_ewma_ms,              \* self.rtt_ewma_ms            (1/100 ms)
    last_offset_update_mono,  \* self.last_offset_update_mono (ms)
    latency_samples,          \* self.latency_samples: deque of <<rtt, offset>>
    \* ---- the Session's environment ----
    uuid_draws,               \* number of uuid.uuid4() values drawn so far
    last_call,                \* what the last API call did (see NoCall)
    \* ---- _discover_server_internal ----
    d_config,                 \* the entry point called and its flags
    d_pc,                     \* the stage to probe next, "returned" or "raised"
    d_selected,               \* selected: NoneVal or Some(DiscoveryResult)
    steps,                    \* steps: the ScanSteps recorded so far
    \* ---- the engine's environment ----
    cache_content,            \* what the cache file holds
    fs_writable,              \* whether the cache file can be written
    alive,                    \* hosts whose /healthz answers "ok"
    ran,                      \* stages probed so far, in order
    found,                    \* results of the stages that succeeded
    cache_writes,             \* results handed to _save_cached_discovery
    raised_error,             \* the exception that left the engine, or "none"
    udp_heard,                \* datagrams recvfrom() handed to the UDP stage
    \* ---- _discover_server_subnet_sweep ----
    n_candidates,             \* len(candidates)
    sweep_workers,            \* the workers argument
    probe_outcome,            \* what the probe of each candidate gives
    future_state,             \* each future: pending, running, done, yielded
    next_task,                \* head of the pool's work queue
    scanned,                  \* scanned
    sweep_pc,                 \* start, collecting, shutdown, returned
    sweep_result,             \* the return value
    \* ---- the pure functions of the offset pipeline, called on their own ----
    exchange,                 \* one _compute_network_sample call
    estimate,                 \* one _estimate_low_jitter_target call
    sweep_plan,               \* one sweep's inputs, candidate list and probes
    loader,                   \* one run of the bootstrap loader
    display                   \* the display client and its Tk timers

session_vars == <<client_id, instance_id, disconnected, endpoint,
                  offset_initialized, offset_display_ms, offset_desync_ms,
                  rtt_ewma_ms, last_offset_update_mono, latency_samples,
                  uuid_draws, last_call>>

discovery_vars == <<d_config, d_pc, d_selected, steps, cache_content,
                    fs_writable, alive, ran, found, cache_writes, raised_error,
                    udp_heard>>

sweep_vars == <<n_candidates, sweep_workers, probe_outcome, future_state,
                next_task, scanned, sweep_pc, sweep_result>>

function_vars == <<exchange, estimate,
                  sweep_plan, loader, display>>

vars == <<session_vars, discovery_vars, sweep_vars, function_vars>>

----------------------------------------------------------------------------
(* Module-level constants of client.py *)

LATENCY_SAMPLE_WINDOW == 24
LOW_RTT_SAMPLE_FLOOR == 5
LOW_RTT_HEADROOM_MS == 8
OFFSET_SLEW_RATE_MS_PER_SEC == 240
OFFSET_DESYNC_GAIN_FAST == 35      \* 0.35, in hundredths
OFFSET_DESYNC_GAIN_SLOW == 16      \* 0.16, in hundredths
MAX_REASONABLE_RTT_MS == 60000
MAX_REASONABLE_OFFSET_MS == 60000
FAST_GAIN_RTT_MARGIN_MS == 3       \* best_rtt_ms + 3.0
ALPHA_RTT == 25                    \* alpha_rtt = 0.25, in hundredths
MIN_DELTA_MS == 1                  \* max(0.001, ...) seconds

(* Fixed-point scales *)
UnitsPerMs == 10 * 10              \* 1 ms = 100 units
TicksPerSec == 10 * 10 * 10        \* the monotonic clock counts ms
Hundred == 10 * 10

(* Bounds of the model *)
MaxSamples == 3                    \* polls folded into one sample window
MaxClockSteps == 3                 \* clock advances of one poll interval
MaxUuidDraws == 2                  \* uuid4() values drawn
MaxPolls == 6                      \* poll_once calls of one display client
MaxWindow == 6                     \* samples of a window handed to the estimator
MaxDatagrams == 2                  \* datagrams one UDP stage receives

----------------------------------------------------------------------------
(* Arithmetic helpers *)

Ms(x) == x * UnitsPerMs
Abs(x) == IF x < 0 THEN -x ELSE x
Max(a, b) == IF a >= b THEN a ELSE b
Min(a, b) == IF a <= b THEN a ELSE b
\* n / d for d > 0, rounded to the nearest integer
RoundDiv(n, d) == (2 * n + d) \div (2 * d)

\* Python's None and a present value: << >> and <<v>>
NoneVal == << >>
Some(v) == <<v>>
Val(o) == o[1]
IsNone(o) == o = NoneVal

----------------------------------------------------------------------------
(* Sample window and low-jitter estimator.  A sample is <<rtt, offset>>.   *)

Rtt(sample) == sample[1]
Offset(sample) == sample[2]

\* an append that stores nothing
DequeAppend_drops(q, x) == q

\* deque(maxlen=LATENCY_SAMPLE_WINDOW).append: the oldest sample is dropped
\* when the deque is full.
DequeAppend(q, x) ==
    IF Len(q) >= LATENCY_SAMPLE_WINDOW THEN Append(Tail(q), x) ELSE Append(q, x)

\* x inserted after every element whose rtt is <= its own (sorted() is stable)
InsertByRtt(s, x) ==
    LET before == SelectSeq(s, LAMBDA y : Rtt(y) <= Rtt(x))
        after == SelectSeq(s, LAMBDA y : Rtt(y) > Rtt(x))
    IN  before \o <<x>> \o after

RECURSIVE SortedByRtt(_)
SortedByRtt(samples) ==
    IF samples = << >> THEN << >>
    ELSE InsertByRtt(SortedByRtt(SubSeq(samples, 1, Len(samples) - 1)),
                     samples[Len(samples)])

\* weight = 1.0 / ((1.0 + rtt_ms) * (1.0 + rtt_ms)), in units of 1/WeightScale.
\* A float weight is positive for every finite rtt; below the resolution of
\* the fixed point it is one unit.
WeightScale == 20 * 20
WeightRange == 20 * UnitsPerMs
Weight(rtt) ==
    LET d == UnitsPerMs + rtt
    IN  IF d > WeightRange THEN 1
        ELSE Max(1, (WeightScale * UnitsPerMs * UnitsPerMs) \div (d * d))

RECURSIVE SumWeights(_)
SumWeights(sel) ==
    IF sel = << >> THEN 0 ELSE Weight(Rtt(Head(sel))) + SumWeights(Tail(sel))

\* sum of weight * (value \div W) and of weight * (value % W) over field k
RECURSIVE SumWeightedQuot(_, _, _)
SumWeightedQuot(sel, k, W) ==
    IF sel = << >> THEN 0
    ELSE Weight(Rtt(Head(sel))) * (Head(sel)[k] \div W)
         + SumWeightedQuot(Tail(sel), k, W)

RECURSIVE SumWeightedRem(_, _, _)
SumWeightedRem(sel, k, W) ==
    IF sel = << >> THEN 0
    ELSE Weight(Rtt(Head(sel))) * (Head(sel)[k] % W)
         + SumWeightedRem(Tail(sel), k, W)

\* (sum of weight * value) / weight_sum over field k of the selected samples,
\* rounded to the nearest unit.  With W = weight_sum each value is split as
\* value = (value \div W) * W + (value % W), which keeps every intermediate
\* product inside 32 bits and changes nothing in the quotient.
WeightedMean(sel, k) ==
    LET W == SumWeights(sel)
    IN  SumWeightedQuot(sel, k, W) + RoundDiv(SumWeightedRem(sel, k, W), W)

\* the selection that keeps every sample
SelectLowRtt_all(samples) == samples

\* selected = samples within LOW_RTT_HEADROOM_MS of the best rtt, or the
\* LOW_RTT_SAMPLE_FLOOR lowest-rtt samples when those are fewer than the floor
SelectLowRtt(samples) ==
    LET sorted_by_rtt == SortedByRtt(samples)
        best_rtt_ms == Rtt(sorted_by_rtt[1])
        near == SelectSeq(samples,
                    LAMBDA s : Rtt(s) <= best_rtt_ms + Ms(LOW_RTT_HEADROOM_MS))
    IN  IF Len(near) < LOW_RTT_SAMPLE_FLOOR
        THEN SubSeq(sorted_by_rtt, 1, Min(Len(sorted_by_rtt), LOW_RTT_SAMPLE_FLOOR))
        ELSE near

\* an estimator that ignores its window
EstimateLowJitterTarget_zero(samples) == <<0, 0>>

\* _estimate_low_jitter_target: <<target_rtt, target_offset>>
EstimateLowJitterTarget(samples) ==
    IF samples = << >> THEN <<0, 0>>
    ELSE LET selected == SelectLowRtt(samples)
             sorted_by_rtt == SortedByRtt(samples)
         IN  IF SumWeights(selected) <= 0
             THEN <<Rtt(sorted_by_rtt[1]), Offset(sorted_by_rtt[1])>>
             ELSE <<WeightedMean(selected, 1), WeightedMean(selected, 2)>>

RECURSIVE MinRtt(_)
MinRtt(samples) ==
    IF Len(samples) = 1 THEN Rtt(samples[1])
    ELSE Min(Rtt(Head(samples)), MinRtt(Tail(samples)))

----------------------------------------------------------------------------
(* Offset model: the slew-rate-limited integrator of _update_offset_model  *)

DesyncGain_always_fast(corrected_rtt_ms, best_rtt_ms) == OFFSET_DESYNC_GAIN_FAST

\* desync_gain, in hundredths
DesyncGain(corrected_rtt_ms, best_rtt_ms) ==
    IF corrected_rtt_ms <= best_rtt_ms + Ms(FAST_GAIN_RTT_MARGIN_MS)
    THEN OFFSET_DESYNC_GAIN_FAST
    ELSE OFFSET_DESYNC_GAIN_SLOW

\* delta_seconds = max(0.001, now_mono - last), in ms
DeltaMs(now, last) == Max(MIN_DELTA_MS, now - last)

\* max_step_ms = OFFSET_SLEW_RATE_MS_PER_SEC * delta_seconds
MaxStep(delta_ms) ==
    (OFFSET_SLEW_RATE_MS_PER_SEC * UnitsPerMs * delta_ms) \div TicksPerSec

\* the slew limit: the step cut to +/- max_step_ms
LimitStep_unlimited(step_ms, max_step_ms) == step_ms

\* a step of the full slew rate whatever the desync
LimitStep_full_rate(step_ms, max_step_ms) ==
    IF step_ms > 0 THEN max_step_ms ELSE -max_step_ms

LimitStep(step_ms, max_step_ms) ==
    IF Abs(step_ms) > max_step_ms
    THEN (IF step_ms > 0 THEN max_step_ms ELSE -max_step_ms)
    ELSE step_ms

\* The offset model as one record
Model == [initialized |-> offset_initialized,
          display |-> offset_display_ms,
          desync |-> offset_desync_ms,
          ewma |-> rtt_ewma_ms,
          stamp |-> last_offset_update_mono,
          samples |-> latency_samples]

\* _update_offset_model(corrected_rtt_ms, offset_sample_ms) on model m, with
\* time.perf_counter() reading `now`
UpdateOffsetModel(m, corrected_rtt_ms, offset_sample_ms, now) ==
    LET samples == DequeAppend(m.samples, <<corrected_rtt_ms, offset_sample_ms>>)
        target == EstimateLowJitterTarget(samples)
        target_rtt_ms == target[1]
        target_offset_ms == target[2]
        best_rtt_ms == MinRtt(samples)
        max_step_ms == MaxStep(DeltaMs(now, m.stamp))
        desync_ms == target_offset_ms - m.display
        step_ms == RoundDiv(desync_ms * DesyncGain(corrected_rtt_ms, best_rtt_ms),
                            Hundred)
    IN  IF ~m.initialized
        THEN [initialized |-> TRUE,
              display |-> target_offset_ms,
              desync |-> 0,
              ewma |-> target_rtt_ms,
              stamp |-> now,
              samples |-> samples]
        ELSE [initialized |-> TRUE,
              display |-> m.display + LimitStep(step_ms, max_step_ms),
              desync |-> desync_ms,
              ewma |-> RoundDiv((Hundred - ALPHA_RTT) * m.ewma
                                  + ALPHA_RTT * target_rtt_ms, Hundred),
              stamp |-> now,
              samples |-> samples]

----------------------------------------------------------------------------
(* Timestamp math.  A payload is the JSON object of /v1/state; a timestamp *)
(* field that is absent, null, not a number or not finite reads as None    *)
(* (_to_float_or_none) and is << >>; a present one is <<ms>>.  Wall-clock   *)
(* readings are whole milliseconds, counted from the client's send time of *)
(* the exchange.                                                           *)

\* _parse_server_timestamps_ms: <<request_received_ms, response_send_ms>>
ParseServerTimestamps(payload) ==
    LET request_received_ms == payload.request_received_unix_ms
        send1 == payload.response_send_unix_ms
        send2 == IF IsNone(send1) THEN payload.response_unix_ms ELSE send1
        send3 == IF IsNone(send2)
                 THEN (IF payload.runtime = "dict" THEN payload.updated_unix_ms
                       ELSE NoneVal)
                 ELSE send2
    IN  <<request_received_ms, send3>>

\* runtime.get(...) on a "runtime" that is no dict raises AttributeError; it
\* is evaluated only when both send timestamps are None
ParseTimestampsRaises(payload) ==
    /\ IsNone(payload.response_send_unix_ms)
    /\ IsNone(payload.response_unix_ms)
    /\ payload.runtime = "not_dict"

ClampRtt_unclamped(rtt_ms) == rtt_ms
ClampOffset_unclamped(offset_ms) == offset_ms
ClampRtt(rtt_ms) == Max(0, Min(rtt_ms, Ms(MAX_REASONABLE_RTT_MS)))
ClampOffset(offset_ms) ==
    Max(-Ms(MAX_REASONABLE_OFFSET_MS), Min(offset_ms, Ms(MAX_REASONABLE_OFFSET_MS)))

\* The floats of the model: a value is finite while its magnitude is at most
\* FloatMax, the stand-in for sys.float_info.max; HugeMs is a timestamp so
\* large that the sum or difference of two of them is no finite float
FloatMax == Ms(10 * 1000 * 1000)
HugeMs == 8 * 1000 * 1000
IsFinite(x) == Abs(x) <= FloatMax

\* _compute_network_sample with the rtt always taken from the wall clock
ComputeNetworkSample_wall_rtt(payload, fallback_rtt_ms, client_send_ms, client_recv_ms) ==
    LET ts == ParseServerTimestamps(payload)
        midpoint_ms == Ms(client_send_ms + client_recv_ms) \div 2
        server_ms == IF IsNone(ts[2]) THEN midpoint_ms ELSE Ms(Val(ts[2]))
    IN  <<ClampRtt(fallback_rtt_ms), ClampOffset(server_ms - midpoint_ms)>>

\* _compute_network_sample: <<rtt_ms, offset_ms>> in 1/100 ms
ComputeNetworkSample(payload, fallback_rtt_ms, client_send_ms, client_recv_ms) ==
    LET ts == ParseServerTimestamps(payload)
        t1 == client_send_ms
        t4 == client_recv_ms
        t2 == Val(ts[1])
        t3 == Val(ts[2])
        both == ~IsNone(ts[1]) /\ ~IsNone(ts[2])
        midpoint_ms == Ms(t1 + t4) \div 2
        server_ms == IF IsNone(ts[2]) THEN midpoint_ms ELSE Ms(t3)
        rtt4 == Ms((t4 - t1) - (t3 - t2))
        sum4 == Ms((t2 - t1) + (t3 - t4))
        rtt_ms == IF both
                  THEN (IF ~IsFinite(rtt4) \/ rtt4 < 0 THEN fallback_rtt_ms
                        ELSE rtt4)
                  ELSE fallback_rtt_ms
        offset_ms == IF both THEN sum4 \div 2 ELSE server_ms - midpoint_ms
        offset_finite == IF both THEN IsFinite(sum4) ELSE IsFinite(offset_ms)
    IN  <<ClampRtt(IF IsFinite(rtt_ms) THEN rtt_ms ELSE fallback_rtt_ms),
          ClampOffset(IF offset_finite THEN offset_ms ELSE 0)>>

\* _state_from_payload raises when "runtime" is no dict (AttributeError) or
\* an integer field holds an infinite float (_to_int: OverflowError)
StateFromPayloadRaises(payload) ==
    payload.runtime = "not_dict" \/ payload.int_overflow

----------------------------------------------------------------------------
(* What the server and the network may answer *)

\* t4 - t1 of an exchange, in ms; the measured rtt (perf_counter) is the same
ElapsedChoices == {1, 4, 12}
\* advance of time.perf_counter() since the latest stamp of the model, in
\* ms: under a millisecond (back-to-back polls), or the poll interval of the
\* example client (FRAME_SLEEP_SECONDS = 0.025)
FRAME_SLEEP_MS == 25
DtChoices == {0, FRAME_SLEEP_MS}
MaxMono == MaxClockSteps * FRAME_SLEEP_MS

\* a /v1/state object with its timestamp fields
StatePayload(rr, rs, ru, runtime, upd, overflow) ==
    [kind |-> "object",
     request_received_unix_ms |-> rr,
     response_send_unix_ms |-> rs,
     response_unix_ms |-> ru,
     runtime |-> runtime,
     updated_unix_ms |-> upd,
     int_overflow |-> overflow]

\* a response that is no usable object: urlopen raises, the body is no JSON,
\* or the JSON value is no object
Failure(kind) ==
    [StatePayload(NoneVal, NoneVal, NoneVal, "missing", NoneVal, FALSE)
        EXCEPT !.kind = kind]

FailureResponses ==
    { Failure("transport_error"), Failure("bad_json"), Failure("not_object"),
      \* no send timestamp and "runtime": null
      StatePayload(Some(0), NoneVal, NoneVal, "not_dict", NoneVal, FALSE) }

SampleResponses ==
    { \* all four timestamps, server 150 ms ahead
      StatePayload(Some(150), Some(150), Some(150), "dict", Some(150), FALSE),
      \* no server timestamp at all
      StatePayload(NoneVal, NoneVal, NoneVal, "missing", NoneVal, FALSE) }

UnshapableResponses ==
    { \* timestamps present, "runtime": null
      StatePayload(Some(150), Some(150), NoneVal, "not_dict", NoneVal, FALSE),
      \* an integer field holding 1e999
      StatePayload(NoneVal, NoneVal, NoneVal, "dict", NoneVal, TRUE) }

StateResponses == FailureResponses \cup SampleResponses \cup UnshapableResponses

\* values of "disconnected" in the answer to /v1/client/disconnect, and
\* bool(payload.get("disconnected", False)) of each
DisconnectedValues == {"true", "false", "missing", "nonempty-string"}
Truthy_never(v) == FALSE

Truthy(v) == v \in {"true", "nonempty-string"}
DisconnectResponses ==
    {"transport_error", "bad_json", "not_object"} \cup DisconnectedValues

PassThroughOps == {"get_clients", "get_api_index", "healthz", "get_runtime_code",
                   "get_openapi_yaml", "get_debug_html"}
RequestOps == PassThroughOps \cup {"get_state", "get_corrected_time", "disconnect"}

\* client names given to set_client_id, and name.strip() of each
ClientNames == {"", "  ", " clock-2 "}
Strip_nothing(name) == name

Strip(name) == CASE name \in {"", "  "} -> ""
                 [] name = " clock-2 " -> "clock-2"

\* instance ids: the caller's, or "py-" + uuid4().hex[:10] of the n-th uuid
CallerInstanceId == [by |-> "caller", n |-> 0]
GeneratedInstanceId_reused(n) == [by |-> "uuid4", n |-> 1]

GeneratedInstanceId(n) == [by |-> "uuid4", n |-> n]

----------------------------------------------------------------------------
(* The session's API *)

ClientHeaders == {"X-Client-Id", "X-Client-Instance"}
OffsetHeaders == {"X-Client-Rtt-Ms", "X-Client-Offset-Ms", "X-Client-Desync-Ms"}

\* _get raises RuntimeError("client session is disconnected; ...") first
GetRaisesSessionClosed_never == FALSE

GetRaisesSessionClosed == disconnected

\* headers of the request _get builds
RequestHeaders(send_client_headers) ==
    {"Accept"}
    \cup (IF send_client_headers THEN ClientHeaders ELSE {})
    \cup (IF send_client_headers /\ offset_initialized THEN OffsetHeaders ELSE {})

\* What a call did: its outcome ("ok" or the error raised), whether _get sent
\* a request and with which headers, whether _update_offset_model ran
\* ("arg": the argument of the call, or the "disconnected" value the server
\* answered to disconnect())
NoCall == [op |-> "none", outcome |-> "none", sent |-> FALSE, headers |-> {},
           updated |-> FALSE, arg |-> "none"]

\* the record of a call that went through _get
GetCall(op, outcome, send_client_headers, updated) ==
    [op |-> op, outcome |-> outcome, sent |-> TRUE,
     headers |-> RequestHeaders(send_client_headers),
     updated |-> updated, arg |-> "none"]

RejectedCall(op) ==
    [op |-> op, outcome |-> "SessionClosed", sent |-> FALSE, headers |-> {},
     updated |-> FALSE, arg |-> "none"]

\* the record of a call that does not go through _get
LocalCall(op, outcome, arg) ==
    [op |-> op, outcome |-> outcome, sent |-> FALSE, headers |-> {},
     updated |-> FALSE, arg |-> arg]

identity_vars == <<client_id, instance_id, endpoint, uuid_draws>>
model_vars == <<offset_initialized, offset_display_ms, offset_desync_ms,
                rtt_ewma_ms, last_offset_update_mono, latency_samples>>

\* BetterClockTimeClient.__init__ (time.perf_counter() is counted from here)
SessionInit ==
    /\ client_id = "python-time-lib"
    /\ \/ instance_id = CallerInstanceId /\ uuid_draws = 0
       \/ instance_id = GeneratedInstanceId(1) /\ uuid_draws = 1
    /\ disconnected = FALSE
    /\ endpoint = [base_url |-> "http://192.168.1.50:8099",
                   host |-> "192.168.1.50", port |-> 8099, local |-> FALSE]
    /\ offset_initialized = FALSE
    /\ offset_display_ms = 0
    /\ offset_desync_ms = 0
    /\ rtt_ewma_ms = 0
    /\ last_offset_update_mono = 0
    /\ latency_samples = << >>
    /\ last_call = NoCall

\* get_corrected_time(): _get, json.loads, _compute_network_sample,
\* _update_offset_model, then the snapshot with _state_from_payload
GetCorrectedTime(responses, elapsed_choices, dt_choices) ==
    /\ UNCHANGED identity_vars
    /\ UNCHANGED disconnected
    /\ \E resp \in responses :
         IF GetRaisesSessionClosed
         THEN /\ last_call' = RejectedCall("get_corrected_time")
              /\ UNCHANGED model_vars
         ELSE IF resp.kind # "object" \/ ParseTimestampsRaises(resp)
         THEN /\ last_call' = GetCall("get_corrected_time",
                    IF resp.kind = "transport_error" THEN "TransportError"
                    ELSE "ParseError", TRUE, FALSE)
              /\ UNCHANGED model_vars
         ELSE \E elapsed \in elapsed_choices, dt \in dt_choices :
              /\ Len(latency_samples) < MaxSamples
              /\ last_offset_update_mono + dt <= MaxMono
              /\ \E sample \in {ComputeNetworkSample(resp, Ms(elapsed), 0, elapsed)} :
                 \E m \in {UpdateOffsetModel(Model, sample[1], sample[2],
                                            last_offset_update_mono + dt)} :
                   /\ offset_initialized' = m.initialized
                   /\ offset_display_ms' = m.display
                   /\ offset_desync_ms' = m.desync
                   /\ rtt_ewma_ms' = m.ewma
                   /\ last_offset_update_mono' = m.stamp
                   /\ latency_samples' = m.samples
              /\ last_call' = GetCall("get_corrected_time",
                    IF StateFromPayloadRaises(resp) THEN "UncaughtError" ELSE "ok",
                    TRUE, TRUE)

\* get_state() as it would be if it fed the offset model
GetState_updates_model ==
    /\ UNCHANGED <<identity_vars, disconnected, offset_initialized,
                   offset_desync_ms, rtt_ewma_ms, last_offset_update_mono,
                   latency_samples>>
    /\ offset_display_ms' = UnitsPerMs
    /\ last_call' = IF GetRaisesSessionClosed THEN RejectedCall("get_state")
                    ELSE GetCall("get_state", "ok", TRUE, FALSE)

\* get_state(): _get, json.loads, _state_from_payload
GetState ==
    /\ UNCHANGED <<identity_vars, disconnected, model_vars>>
    /\ \E resp \in StateResponses :
         last_call' =
            IF GetRaisesSessionClosed THEN RejectedCall("get_state")
            ELSE GetCall("get_state",
                    CASE resp.kind = "transport_error" -> "TransportError"
                      [] resp.kind \in {"bad_json", "not_object"} -> "ParseError"
                      [] OTHER -> IF StateFromPayloadRaises(resp) THEN "UncaughtError"
                                  ELSE "ok",
                    TRUE, FALSE)

\* get_clients, get_api_index, healthz, get_runtime_code, get_openapi_yaml,
\* get_debug_html: _get and the decoding of the body
PassThroughGet ==
    /\ UNCHANGED <<identity_vars, disconnected, model_vars>>
    /\ \E op \in PassThroughOps, outcome \in {"ok", "TransportError"} :
         last_call' =
            IF GetRaisesSessionClosed THEN RejectedCall(op)
            ELSE GetCall(op, outcome, op # "healthz", FALSE)

\* disconnect(): _get, json.loads, then
\* self.disconnected = bool(payload.get("disconnected", False))
Disconnect ==
    /\ UNCHANGED <<identity_vars, model_vars>>
    /\ \E resp \in DisconnectResponses :
         IF GetRaisesSessionClosed
         THEN /\ last_call' = RejectedCall("disconnect")
              /\ UNCHANGED disconnected
         ELSE IF resp \notin DisconnectedValues
         THEN /\ last_call' = GetCall("disconnect",
                    IF resp = "transport_error" THEN "TransportError"
                    ELSE "ParseError", TRUE, FALSE)
              /\ UNCHANGED disconnected
         ELSE /\ last_call' = [GetCall("disconnect", "ok", TRUE, FALSE)
                                    EXCEPT !.arg = resp]
              /\ disconnected' = Truthy(resp)

\* the offset model reconnect() leaves, with time.perf_counter() reading `now`
ReconnectModel_keeps_samples(m, now) ==
    [initialized |-> FALSE, display |-> 0, desync |-> 0, ewma |-> 0,
     stamp |-> now, samples |-> m.samples]

ReconnectModel(m, now) ==
    [initialized |-> FALSE, display |-> 0, desync |-> 0, ewma |-> 0,
     stamp |-> now, samples |-> << >>]

\* reconnect(new_instance)
Reconnect(dt_choices) ==
    /\ UNCHANGED <<client_id, endpoint>>
    /\ \E new_instance \in BOOLEAN, dt \in dt_choices :
         /\ last_offset_update_mono + dt <= MaxMono
         /\ IF new_instance
            THEN /\ uuid_draws < MaxUuidDraws
                 /\ instance_id' = GeneratedInstanceId(uuid_draws + 1)
                 /\ uuid_draws' = uuid_draws + 1
            ELSE UNCHANGED <<instance_id, uuid_draws>>
         /\ disconnected' = FALSE
         /\ \E m \in {ReconnectModel(Model, last_offset_update_mono + dt)} :
              /\ offset_initialized' = m.initialized
              /\ offset_display_ms' = m.display
              /\ offset_desync_ms' = m.desync
              /\ rtt_ewma_ms' = m.ewma
              /\ last_offset_update_mono' = m.stamp
              /\ latency_samples' = m.samples
         /\ last_call' = LocalCall("reconnect", "ok",
                IF new_instance THEN "new_instance=True" ELSE "new_instance=False")

\* set_client_id(client_name)
SetClientId ==
    /\ UNCHANGED <<instance_id, endpoint, uuid_draws, disconnected, model_vars>>
    /\ \E client_name \in ClientNames :
         LET cleaned == Strip(client_name)
         IN  IF cleaned = ""
             THEN /\ UNCHANGED client_id
                  /\ last_call' = LocalCall("set_client_id", "InvalidArgument",
                                            client_name)
             ELSE /\ client_id' = cleaned
                  /\ last_call' = LocalCall("set_client_id", "ok", client_name)

----------------------------------------------------------------------------
(* The discovery cache and the discovery engine *)

LOCALHOST_IP == "127.0.0.1"
DISCOVERY_SERVICE_NAME == "betterclock"
DefaultPort == 8099

\* a server of the LAN, and the address of a server that has gone away
LanServer == "192.168.1.50"
StaleServer == "192.168.1.60"

StageOrder == <<"local-healthz", "cache-healthz", "mdns", "udp-broadcast",
                "subnet-sweep">>

\* _resolve_base_url: "http://{host}:{port}".  A URL is kept as its parts;
\* "slash" tells a trailing "/", and a string with no "scheme:" in front has
\* scheme "".
ResolveBaseUrl(host, port) ==
    [scheme |-> "http", host |-> host, port |-> port, slash |-> FALSE]

\* base_url.rstrip('/')
RstripSlash(base_url) == [base_url EXCEPT !.slash = FALSE]

EmptyUrl == [scheme |-> "", host |-> "", port |-> 0, slash |-> FALSE]
GarbageUrl == [scheme |-> "", host |-> "garbage", port |-> 0, slash |-> FALSE]

\* _to_int(value, default): int(value), the default on TypeError or
\* ValueError; int(float("inf")) raises OverflowError, which is not caught.
\* Integers of JSON documents are the tokens "0", "1", "2"; "x" is a value
\* that is no number, "missing" an absent key, "Infinity" a non-finite float.
IntTokens == {"0", "1", "2"}
ToIntRaises(value) == value = "Infinity"
ToInt(value, default) == IF value \in IntTokens THEN value ELSE default

DiscoveryResult(base_url, ip, port, version, via) ==
    [base_url |-> base_url, ip |-> ip, port |-> port,
     service |-> DISCOVERY_SERVICE_NAME, version |-> version, via |-> via]

\* urllib.request.Request(...) in _try_healthz, outside its try: ValueError
\* "unknown url type" for a URL without a scheme
TryHealthzRaises(base_url) == base_url.scheme = ""

\* _try_healthz: GET {base_url}/healthz answers "ok"
TryHealthz(base_url, alive_hosts) ==
    /\ base_url.scheme = "http"
    /\ base_url.host \in alive_hosts
    /\ base_url.port = DefaultPort

\* the cache file: what json.load of it gives
CacheEntry(base_url, ip, port, version, via) ==
    [kind |-> "object", base_url |-> base_url, ip |-> ip, port |-> port,
     service |-> "missing", version |-> version, via |-> via]

\* no file, a file that is no JSON, a JSON value that is no object, an object
\* without the "base_url" key
UnusableCache(kind) == [CacheEntry(EmptyUrl, "", 0, "missing", "missing")
                            EXCEPT !.kind = kind]

CacheFiles ==
    { UnusableCache("absent"), UnusableCache("not-json"),
      UnusableCache("not-object"), UnusableCache("missing-fields"),
      CacheEntry(ResolveBaseUrl(LanServer, DefaultPort), LanServer,
                 DefaultPort, "2", "udp-broadcast"),
      CacheEntry([ResolveBaseUrl(StaleServer, DefaultPort) EXCEPT !.slash = TRUE],
                 StaleServer, DefaultPort, "x", "missing"),
      CacheEntry(ResolveBaseUrl(LanServer, 0), LanServer, 0, "1", "mdns"),
      CacheEntry(GarbageUrl, "1.2.3.4", DefaultPort, "1", "mdns"),
      CacheEntry(ResolveBaseUrl(LanServer, DefaultPort), LanServer,
                 DefaultPort, "Infinity", "mdns") }

\* _load_cached_discovery: None (<< >>), an entry, or the error of _to_int
LoadCachedDiscovery(content) ==
    IF content.kind # "object"
       \/ content.base_url = EmptyUrl \/ content.ip = "" \/ content.port <= 0
    THEN [raises |-> FALSE, result |-> NoneVal]
    ELSE IF ToIntRaises(content.version)
    THEN [raises |-> TRUE, result |-> NoneVal]
    ELSE [raises |-> FALSE,
          result |-> Some([DiscoveryResult(
                        RstripSlash(content.base_url), content.ip, content.port,
                        ToInt(content.version, "1"),
                        IF content.via = "missing" THEN "cache" ELSE content.via)
                     EXCEPT !.service =
                        IF content.service = "missing"
                        THEN DISCOVERY_SERVICE_NAME ELSE content.service])]

\* _save_cached_discovery: the file afterwards; every failure is swallowed
SaveCachedDiscovery_noop(content, discovery, writable) == content

SaveCachedDiscovery(content, discovery, writable) ==
    IF writable
    THEN [CacheEntry(discovery.base_url, discovery.ip, discovery.port,
                     discovery.version, discovery.via)
            EXCEPT !.service = discovery.service]
    ELSE content

\* discover_server(...), connect_auto(...) and scan_report(..., full_scan)
\* with their flags
DiscoveryConfigs ==
    { c \in [entry : {"discover_server", "connect_auto", "scan_report"},
             local_first : BOOLEAN, mdns_first : BOOLEAN, use_cache : BOOLEAN,
             subnet_sweep : BOOLEAN, full_scan : BOOLEAN] :
        c.entry # "scan_report" => ~c.full_scan }

\* the stop_on_first and collect_steps each entry point passes to the engine
StopOnFirst == IF d_config.entry = "scan_report" THEN ~d_config.full_scan ELSE TRUE
CollectSteps == d_config.entry = "scan_report"

\* _build_scan_step
ScanStep(step, status, discovery) ==
    [step |-> step, status |-> status, discovery |-> discovery]

discovery_env_vars == <<d_config, fs_writable, alive>>

\* _discover_server_internal about to probe its first stage
DiscoveryInit ==
    /\ d_config \in DiscoveryConfigs
    /\ cache_content \in CacheFiles
    /\ fs_writable \in BOOLEAN
    /\ alive \in SUBSET {LOCALHOST_IP, LanServer}
    /\ d_pc = "local-healthz"
    /\ d_selected = NoneVal
    /\ steps = << >>
    /\ ran = << >>
    /\ found = << >>
    /\ cache_writes = << >>
    /\ raised_error = "none"
    /\ udp_heard = << >>

\* a stage that saves what it found whatever use_cache says
StageOk_always_saves(stage, result, saves, next_pc) ==
    /\ ran' = Append(ran, stage)
    /\ found' = Append(found, result)
    /\ IF saves
       THEN /\ cache_content' = SaveCachedDiscovery(cache_content, result, fs_writable)
            /\ cache_writes' = Append(cache_writes, result)
       ELSE UNCHANGED <<cache_content, cache_writes>>
    /\ steps' = IF CollectSteps
                THEN Append(steps, ScanStep(stage, "ok", Some(result)))
                ELSE steps
    /\ IF stage = "local-healthz" \/ IsNone(d_selected)
       THEN /\ d_selected' = Some(result)
            /\ d_pc' = IF StopOnFirst THEN "returned" ELSE next_pc
       ELSE /\ UNCHANGED d_selected
            /\ d_pc' = next_pc
    /\ UNCHANGED raised_error

\* a stage found `result`: save it (when the stage saves), record the step,
\* select it when nothing is selected yet, return when stop_on_first
StageOk(stage, result, saves, next_pc) ==
    /\ ran' = Append(ran, stage)
    /\ found' = Append(found, result)
    /\ IF saves /\ d_config.use_cache
       THEN /\ cache_content' = SaveCachedDiscovery(cache_content, result, fs_writable)
            /\ cache_writes' = Append(cache_writes, result)
       ELSE UNCHANGED <<cache_content, cache_writes>>
    /\ steps' = IF CollectSteps
                THEN Append(steps, ScanStep(stage, "ok", Some(result)))
                ELSE steps
    /\ IF stage = "local-healthz" \/ IsNone(d_selected)
       THEN /\ d_selected' = Some(result)
            /\ d_pc' = IF StopOnFirst THEN "returned" ELSE next_pc
       ELSE /\ UNCHANGED d_selected
            /\ d_pc' = next_pc
    /\ UNCHANGED raised_error

\* a stage found nothing
StageFail(stage, next_pc) ==
    /\ ran' = Append(ran, stage)
    /\ steps' = IF CollectSteps
                THEN Append(steps, ScanStep(stage, "fail", NoneVal))
                ELSE steps
    /\ d_pc' = next_pc
    /\ UNCHANGED <<d_selected, found, cache_content, cache_writes, raised_error>>

\* a disabled stage that leaves no step behind
StageSkipped_silent(stage, next_pc) ==
    /\ d_pc' = next_pc
    /\ UNCHANGED <<d_selected, steps, ran, found, cache_content, cache_writes,
                   raised_error>>

\* a stage the configuration disables
StageSkipped(stage, next_pc) ==
    /\ steps' = IF CollectSteps
                THEN Append(steps, ScanStep(stage, "skipped", NoneVal))
                ELSE steps
    /\ d_pc' = next_pc
    /\ UNCHANGED <<d_selected, ran, found, cache_content, cache_writes, raised_error>>

\* an exception no handler of the engine catches leaves through the caller
StageRaises(stage, error) ==
    /\ ran' = Append(ran, stage)
    /\ d_pc' = "raised"
    /\ raised_error' = error
    /\ UNCHANGED <<d_selected, steps, found, cache_content, cache_writes>>

\* stage 1: GET http://127.0.0.1:{port}/healthz
LocalHealthz ==
    /\ UNCHANGED udp_heard
    /\ d_pc = "local-healthz"
    /\ UNCHANGED discovery_env_vars
    /\ IF ~d_config.local_first
       THEN StageSkipped("local-healthz", "cache-healthz")
       ELSE IF TryHealthz(ResolveBaseUrl(LOCALHOST_IP, DefaultPort), alive)
       THEN StageOk("local-healthz",
                    DiscoveryResult(ResolveBaseUrl(LOCALHOST_IP, DefaultPort),
                                    LOCALHOST_IP, DefaultPort, "1", "local-healthz"),
                    TRUE, "cache-healthz")
       ELSE StageFail("local-healthz", "cache-healthz")

\* stage 2: load the cache, GET {cached.base_url}/healthz
CacheHealthz ==
    /\ UNCHANGED udp_heard
    /\ d_pc = "cache-healthz"
    /\ UNCHANGED discovery_env_vars
    /\ IF ~d_config.use_cache
       THEN StageSkipped("cache-healthz", "mdns")
       ELSE \E cached \in {LoadCachedDiscovery(cache_content)} :
            IF cached.raises
            THEN StageRaises("cache-healthz", "OverflowError")
            ELSE IF IsNone(cached.result)
            THEN StageFail("cache-healthz", "mdns")
            ELSE IF TryHealthzRaises(Val(cached.result).base_url)
            THEN StageRaises("cache-healthz", "ValueError")
            ELSE IF TryHealthz(Val(cached.result).base_url, alive)
            THEN StageOk("cache-healthz",
                         [Val(cached.result) EXCEPT !.via = "cache-healthz"],
                         FALSE, "mdns")
            ELSE StageFail("cache-healthz", "mdns")

\* what the mDNS library does: not installed, Zeroconf() raises (outside the
\* try of _discover_server_mdns), nobody answers, a server announces itself
\* (with its port, or with port 0)
MdnsAnswers == {"not-installed", "zeroconf-raises", "no-response", "announce",
                "announce-port-0"}

\* stage 3: _discover_server_mdns
Mdns ==
    /\ UNCHANGED udp_heard
    /\ d_pc = "mdns"
    /\ UNCHANGED discovery_env_vars
    /\ IF ~d_config.mdns_first
       THEN StageSkipped("mdns", "udp-broadcast")
       ELSE \E answer \in MdnsAnswers :
            IF answer = "zeroconf-raises"
            THEN StageRaises("mdns", "OSError")
            ELSE IF answer = "announce"
            THEN StageOk("mdns",
                         DiscoveryResult(ResolveBaseUrl(LanServer, DefaultPort),
                                         LanServer, DefaultPort, "1", "mdns"),
                         TRUE, "udp-broadcast")
            ELSE StageFail("mdns", "udp-broadcast")

\* A value of a JSON document handed to int(): an integer n, a string of
\* digits "n", a float n.5, null, a float beyond every integer (1e999), or
\* the key is absent
JsonNumber(t, n) == [t |-> t, n |-> n]

\* int(payload.get(key, default)): the error it raises, or "none"
IntError(value) ==
    CASE value.t = "null" -> "TypeError"
      [] value.t = "inf" -> "OverflowError"
      [] OTHER -> "none"

\* int(payload.get(key, default)) when it raises nothing: int("8099") is
\* 8099 and int(8099.5) is 8099
IntOf(value, default) == IF value.t = "missing" THEN default ELSE value.n

\* a datagram of the UDP socket: source address and what json.loads gives
Datagram(json, service, api_port, version) ==
    [source |-> LanServer, json |-> json, service |-> service,
     api_port |-> api_port, version |-> version]

\* datagrams the stage ignores
IgnoredDatagrams ==
    { Datagram("not-json", "missing", JsonNumber("missing", 0), "missing"),
      Datagram("object", "other", JsonNumber("int", DefaultPort), "1"),
      Datagram("object", "betterclock", JsonNumber("null", 0), "1"),
      Datagram("object", "betterclock", JsonNumber("int", DefaultPort), "x") }

\* datagrams that end the listening: discovery responses (api_port the
\* default port, 0, beyond 65535, absent, a string, a float) and objects
\* whose api_port or version is 1e999
DecisiveDatagrams ==
    { Datagram("object", "betterclock", JsonNumber("int", DefaultPort), "2"),
      Datagram("object", "betterclock", JsonNumber("int", 0), "1"),
      Datagram("object", "betterclock", JsonNumber("int", DefaultPort + 91900), "1"),
      Datagram("object", "betterclock", JsonNumber("missing", 0), "missing"),
      Datagram("object", " BetterClock ", JsonNumber("str", DefaultPort), "1"),
      Datagram("object", "betterclock", JsonNumber("float", DefaultPort), "1"),
      Datagram("object", "betterclock", JsonNumber("inf", 0), "1"),
      Datagram("object", "betterclock", JsonNumber("int", DefaultPort), "Infinity") }

\* str(payload.get("service", "")).strip().lower()
StripLower(service) ==
    CASE service = " BetterClock " -> "betterclock"
      [] service = "missing" -> ""
      [] OTHER -> service

\* the error of the two int() calls of _is_discovery_payload, or "none"
PayloadIntError(payload) ==
    IF IntError(payload.api_port) # "none" THEN IntError(payload.api_port)
    ELSE IF payload.version = "x" THEN "ValueError"
    ELSE IF ToIntRaises(payload.version) THEN "OverflowError"
    ELSE "none"

\* _is_discovery_payload: TypeError and ValueError give False
IsDiscoveryPayload(payload) ==
    /\ StripLower(payload.service) = DISCOVERY_SERVICE_NAME
    /\ PayloadIntError(payload) = "none"

\* _is_discovery_payload lets the OverflowError of int(1e999) through
IsDiscoveryPayloadRaises(payload) ==
    /\ StripLower(payload.service) = DISCOVERY_SERVICE_NAME
    /\ PayloadIntError(payload) = "OverflowError"

\* the DiscoveryResult the UDP stage builds from an accepted datagram
UdpResult(datagram) ==
    [DiscoveryResult(
        ResolveBaseUrl(datagram.source, IntOf(datagram.api_port, DefaultPort)),
        datagram.source, IntOf(datagram.api_port, DefaultPort),
        ToInt(datagram.version, "1"), "udp-broadcast")
     EXCEPT !.service = IF datagram.service = "missing"
                        THEN DISCOVERY_SERVICE_NAME ELSE datagram.service]

\* what recvfrom() hands over until the stage stops listening: up to
\* MaxDatagrams datagrams, of which only the last one can be decisive
HeardSequences ==
    UNION { { h \in [1..n -> IgnoredDatagrams \cup DecisiveDatagrams] :
                \A i \in 1 .. n - 1 : h[i] \in IgnoredDatagrams } :
            n \in 0 .. MaxDatagrams }

\* stage 4: the UDP broadcast probe (always enabled).  The datagrams are
\* read one by one until one is accepted, _is_discovery_payload raises, or
\* the socket times out or fails (OSError).
UdpBroadcast ==
    /\ d_pc = "udp-broadcast"
    /\ UNCHANGED discovery_env_vars
    /\ \E heard \in HeardSequences :
         /\ udp_heard' = heard
         /\ IF heard = << >> \/ heard[Len(heard)].json # "object"
            THEN StageFail("udp-broadcast", "subnet-sweep")
            ELSE IF IsDiscoveryPayloadRaises(heard[Len(heard)])
            THEN StageRaises("udp-broadcast", "OverflowError")
            ELSE IF IsDiscoveryPayload(heard[Len(heard)])
            THEN StageOk("udp-broadcast", UdpResult(heard[Len(heard)]),
                         TRUE, "subnet-sweep")
            ELSE StageFail("udp-broadcast", "subnet-sweep")

\* stage 5: _discover_server_subnet_sweep finds one of the LAN hosts whose
\* /healthz answers, or nothing
SubnetSweep ==
    /\ UNCHANGED udp_heard
    /\ d_pc = "subnet-sweep"
    /\ UNCHANGED discovery_env_vars
    /\ IF ~d_config.subnet_sweep
       THEN StageSkipped("subnet-sweep", "returned")
       ELSE \E sweep_found \in {NoneVal} \cup {Some(ip) : ip \in alive \ {LOCALHOST_IP}} :
            IF IsNone(sweep_found)
            THEN StageFail("subnet-sweep", "returned")
            ELSE StageOk("subnet-sweep",
                         DiscoveryResult(ResolveBaseUrl(Val(sweep_found), DefaultPort),
                                         Val(sweep_found), DefaultPort, "1",
                                         "subnet-sweep"),
                         TRUE, "returned")

\* urlsplit(base_url).port in _connection_host_port_from_url: ValueError for
\* a port outside 0..65535
ConnectionPortRaises(base_url) ==
    base_url.port < 0 \/ base_url.port >= 256 * 256

\* connect_auto after discover_server returned: RuntimeError when nothing
\* was discovered, else BetterClockTimeClient(base_url=discovery.base_url,
\* local=discovery.ip == LOCALHOST_IP, ...), whose __init__ may raise
ConnectAuto ==
    /\ d_config.entry = "connect_auto"
    /\ d_pc = "returned"
    /\ UNCHANGED <<d_config, d_selected, steps, cache_content, fs_writable,
                   alive, ran, found, cache_writes, udp_heard>>
    /\ IF IsNone(d_selected)
       THEN /\ d_pc' = "connect-raised"
            /\ raised_error' = "NoServerDiscovered"
            /\ UNCHANGED session_vars
       ELSE IF ConnectionPortRaises(Val(d_selected).base_url)
       THEN /\ d_pc' = "connect-raised"
            /\ raised_error' = "ValueError"
            /\ UNCHANGED session_vars
       ELSE /\ d_pc' = "connected"
            /\ UNCHANGED raised_error
            /\ endpoint' = [base_url |-> RstripSlash(Val(d_selected).base_url),
                            host |-> Val(d_selected).base_url.host,
                            port |-> Val(d_selected).base_url.port,
                            local |-> (Val(d_selected).ip = LOCALHOST_IP)]
            /\ disconnected' = FALSE
            /\ offset_initialized' = FALSE
            /\ offset_display_ms' = 0
            /\ offset_desync_ms' = 0
            /\ rtt_ewma_ms' = 0
            /\ last_offset_update_mono' = 0
            /\ latency_samples' = << >>
            /\ UNCHANGED <<client_id, instance_id, uuid_draws, last_call>>

DiscoveryNext ==
    \/ LocalHealthz
    \/ CacheHealthz
    \/ Mdns
    \/ UdpBroadcast
    \/ SubnetSweep

----------------------------------------------------------------------------
(* The subnet sweep: _discover_server_subnet_sweep *)

MinWorkers == 4
MaxSweepHosts == 5        \* candidates of a sweep

\* the sweep_workers a caller passes: one, or the default 48
DefaultSweepWorkers == 48
WorkerChoices == {1, DefaultSweepWorkers}

Candidates == 1 .. n_candidates

\* worker_count = max(4, min(workers, len(candidates)))
WorkerCount(workers, n) == Max(MinWorkers, Min(workers, n))

\* ok = bool(future.result()), False when the probe raised
ProbeVerdict_always_ok(outcome) == TRUE

ProbeVerdict(outcome) == outcome = "ok"

NoSweepResult == [kind |-> "none", ip |-> 0, scanned |-> 0, total |-> 0]

\* (DiscoveryResult(ip=candidate_ip, via="subnet-sweep"),
\*  "found server after scanning {scanned}/{len(candidates)} hosts ...")
SweepSuccess(candidate_ip, k, n) ==
    [kind |-> "success", ip |-> candidate_ip, scanned |-> k, total |-> n]

\* (None, "no host responded ..."), (None, "no LAN IP detected ..."),
\* (None, "could not derive subnet candidates ...")
SweepFailure(n) == [kind |-> "failure", ip |-> 0, scanned |-> 0, total |-> n]

Running == {i \in Candidates : future_state[i] = "running"}

sweep_env_vars == <<n_candidates, sweep_workers, probe_outcome>>

\* the call of _discover_server_subnet_sweep: the candidate list is empty (no
\* LAN IP, or no host in the network), or holds MaxSweepHosts hosts
SweepInit ==
    /\ n_candidates \in {0, MaxSweepHosts}
    /\ sweep_workers \in WorkerChoices
    /\ probe_outcome \in [1 .. n_candidates -> {"ok", "timeout"}]
    /\ future_state = [i \in 1 .. n_candidates |-> "pending"]
    /\ next_task = 1
    /\ scanned = 0
    /\ sweep_pc = "start"
    /\ sweep_result = NoSweepResult

\* no candidates: return at once; otherwise every probe is submitted to the
\* pool and the main thread enters as_completed
SubmitProbes ==
    /\ sweep_pc = "start"
    /\ IF n_candidates = 0
       THEN /\ sweep_result' = SweepFailure(0)
            /\ sweep_pc' = "returned"
       ELSE /\ sweep_pc' = "collecting"
            /\ UNCHANGED sweep_result
    /\ UNCHANGED <<sweep_env_vars, future_state, next_task, scanned>>

\* an idle worker of the pool takes the next probe of the work queue
WorkerTakesProbe ==
    /\ sweep_pc \in {"collecting", "shutdown"}
    /\ next_task <= n_candidates
    /\ Cardinality(Running) < WorkerCount(sweep_workers, n_candidates)
    /\ future_state' = [future_state EXCEPT ![next_task] = "running"]
    /\ next_task' = next_task + 1
    /\ UNCHANGED <<sweep_env_vars, scanned, sweep_pc, sweep_result>>

\* a probe (_try_healthz) ends and its future completes
ProbeFinishes ==
    /\ \E i \in Running :
         future_state' = [future_state EXCEPT ![i] = "done"]
    /\ UNCHANGED <<sweep_env_vars, next_task, scanned, sweep_pc, sweep_result>>

\* as_completed yields a completed future: count it, return on ok (the
\* return value waits for the pool's shutdown)
AsCompletedYields ==
    /\ sweep_pc = "collecting"
    /\ \E i \in Candidates :
         /\ future_state[i] = "done"
         /\ future_state' = [future_state EXCEPT ![i] = "yielded"]
         /\ scanned' = scanned + 1
         /\ IF ProbeVerdict(probe_outcome[i])
            THEN /\ sweep_result' = SweepSuccess(i, scanned + 1, n_candidates)
                 /\ sweep_pc' = "shutdown"
            ELSE UNCHANGED <<sweep_result, sweep_pc>>
    /\ UNCHANGED <<sweep_env_vars, next_task>>

\* as_completed has yielded every future and none was ok
AsCompletedExhausted ==
    /\ sweep_pc = "collecting"
    /\ \A i \in Candidates : future_state[i] = "yielded"
    /\ sweep_result' = SweepFailure(n_candidates)
    /\ sweep_pc' = "shutdown"
    /\ UNCHANGED <<sweep_env_vars, future_state, next_task, scanned>>

\* leaving the with block: shutdown(wait=True) returns once every probe has
\* run, then the caller gets the return value
PoolShutdown ==
    /\ sweep_pc = "shutdown"
    /\ \A i \in Candidates : future_state[i] \in {"done", "yielded"}
    /\ sweep_pc' = "returned"
    /\ UNCHANGED <<sweep_env_vars, future_state, next_task, scanned, sweep_result>>

SweepNext ==
    \/ SubmitProbes
    \/ WorkerTakesProbe
    \/ ProbeFinishes
    \/ AsCompletedYields
    \/ AsCompletedExhausted
    \/ PoolShutdown

\* no sweep running
SweepIdle ==
    /\ n_candidates = 0
    /\ sweep_workers = DefaultSweepWorkers
    /\ probe_outcome = << >>
    /\ future_state = << >>
    /\ next_task = 1
    /\ scanned = 0
    /\ sweep_pc = "idle"
    /\ sweep_result = NoSweepResult

----------------------------------------------------------------------------
(* Spec: one session driven through its whole API, polled once per frame  *)
(* with a round trip of 4 ms.                                              *)
(* SpecOffsetModel: the polls and reconnects of one session, over every    *)
(* round-trip time and clock advance of the model.                         *)
(* SpecDiscovery: one call of discover_server or scan_report.              *)
(* SpecSweep: one call of _discover_server_subnet_sweep.                   *)

\* a session with no discovery running
DiscoveryIdle ==
    /\ d_config = [entry |-> "none", local_first |-> FALSE, mdns_first |-> FALSE,
                   use_cache |-> FALSE, subnet_sweep |-> FALSE, full_scan |-> FALSE]
    /\ cache_content = UnusableCache("absent")
    /\ fs_writable = FALSE
    /\ alive = {}
    /\ d_pc = "idle"
    /\ d_selected = NoneVal
    /\ steps = << >>
    /\ ran = << >>
    /\ found = << >>
    /\ cache_writes = << >>
    /\ raised_error = "none"
    /\ udp_heard = << >>

\* ---- the timestamp math called on its own ----

\* server timestamps in ms of the client's clock, which reads 1000 when the
\* request is sent: absent, far behind, at and beyond the offset bound on
\* either side, close to the client's clock, far ahead
TimestampChoices ==
    {NoneVal} \cup { Some(t) : t \in {-HugeMs, -59001, -59000, 1000, 1002,
                                      61000, 61001, HugeMs} }

\* the calls of _compute_network_sample: the payload, rtt_wall_ms (at and
\* beyond the rtt bound), t1 and t4 (t4 - t1 negative when the wall clock
\* was stepped back, at and beyond the rtt bound)
Exchanges ==
    { [payload |-> StatePayload(rr, rs, ru, rt[1], rt[2], FALSE),
       fallback_rtt_ms |-> Ms(wall),
       client_send_ms |-> 1000,
       client_recv_ms |-> 1000 + elapsed,
       outcome |-> "pending",
       sample |-> <<0, 0>>] :
        rr \in TimestampChoices, rs \in TimestampChoices,
        ru \in {NoneVal, Some(1002), Some(61001)},
        rt \in {<<"missing", NoneVal>>, <<"dict", NoneVal>>,
                <<"dict", Some(1002)>>, <<"not_dict", NoneVal>>},
        wall \in {4, 60000, 60001},
        elapsed \in {-5, 0, 4, 60000, 60001} }

NoExchange == [outcome |-> "none"]

\* _compute_network_sample(payload, fallback_rtt_ms, client_send_ms,
\* client_recv_ms): a sample, or the AttributeError of the timestamp parser
ComputeSample ==
    /\ exchange.outcome = "pending"
    /\ exchange' =
         IF ParseTimestampsRaises(exchange.payload)
         THEN [exchange EXCEPT !.outcome = "AttributeError"]
         ELSE [exchange EXCEPT
                 !.outcome = "sample",
                 !.sample = ComputeNetworkSample(
                                exchange.payload, exchange.fallback_rtt_ms,
                                exchange.client_send_ms, exchange.client_recv_ms)]
    /\ UNCHANGED <<estimate, sweep_plan, loader, display>>

\* ---- the estimator called on its own ----

\* samples <<rtt, offset>> a window may hold.  The rtts are 0, 1, 9 and 19 ms:
\* the weight of each is an exact multiple of 1/WeightScale, and 9 ms is
\* within LOW_RTT_HEADROOM_MS of 1 ms and not of 0 ms.
WindowSamples ==
    { <<Ms(0), Ms(10)>>, <<Ms(1), -Ms(20)>>, <<Ms(9), Ms(300)>>,
      <<Ms(19), -Ms(500)>> }

\* list(self.latency_samples) of up to MaxWindow samples
Windows == UNION { [1..n -> WindowSamples] : n \in 1..MaxWindow }

Estimates ==
    { [window |-> w, outcome |-> "pending", target |-> <<0, 0>>] :
        w \in Windows }

NoEstimate == [outcome |-> "none"]

\* target_rtt_ms, target_offset_ms = self._estimate_low_jitter_target(window)
EstimateTarget ==
    /\ estimate.outcome = "pending"
    /\ estimate' = [estimate EXCEPT
                      !.outcome = "target",
                      !.target = EstimateLowJitterTarget(estimate.window)]
    /\ UNCHANGED <<exchange, sweep_plan, loader, display>>

\* ---- the candidate list of a sweep ----

\* An IPv4 address is the integer OctetSpan * k + d: the address with last
\* octet d in the k-th /24, the /24 of the LAN IP (192.168.1.x) being the one
\* with k = 1 and 192.168.0.x the one with k = 0.
OctetSpan == 2 ^ (32 - 24)

\* network.hosts() in ascending order: every address but the network and the
\* broadcast address; both addresses of a /31; the one address of a /32
SubnetHosts(network) ==
    LET size == 2 ^ (32 - network.prefix)
    IN  IF network.prefix >= 31
        THEN [i \in 1 .. size |-> network.base + i - 1]
        ELSE [i \in 1 .. size - 2 |-> network.base + i]

\* primary + secondary, then the LAN IP and the x.y.z.1 gateway moved to the
\* front: the order of the candidates before the cut to max_hosts
CandidateOrder_as_listed(lan_ip, hosts) == hosts

CandidateOrder(lan_ip, hosts) ==
    LET same_24(h) == h \div OctetSpan = lan_ip \div OctetSpan
        primary == SelectSeq(hosts, same_24)
        secondary == SelectSeq(hosts, LAMBDA h : ~same_24(h))
        candidates == primary \o secondary
        gateway == (lan_ip \div OctetSpan) * OctetSpan + 1
        in_list(a, list) == \E i \in 1 .. Len(list) : list[i] = a
        local_first == IF in_list(lan_ip, candidates) THEN <<lan_ip>> ELSE << >>
        rest1 == SelectSeq(candidates, LAMBDA h : h # lan_ip)
        gateway_next == IF in_list(gateway, rest1) THEN <<gateway>> ELSE << >>
        rest2 == SelectSeq(rest1, LAMBDA h : h # gateway)
    IN  local_first \o gateway_next \o rest2

\* _build_subnet_candidates(lan_ip, max_hosts, sweep_prefix=, sweep_cidr=):
\* the candidates and the target network (None when no network was parsed)
BuildSubnetCandidates(lan_ip, max_hosts, sweep_prefix, sweep_cidr) ==
    IF sweep_cidr.kind \in {"bad", "ipv6"}
    THEN [candidates |-> << >>, network |-> NoneVal]
    ELSE
      LET \* ipaddress.ip_network(text, strict=False) masks the host bits off
          IpNetwork(addr, prefix) ==
            [base |-> addr - (addr % (2 ^ (32 - prefix))), prefix |-> prefix]
          network ==
            IF sweep_cidr.kind = "cidr"
            THEN IpNetwork(sweep_cidr.addr, sweep_cidr.prefix)
            ELSE IpNetwork(lan_ip, Max(8, Min(30, sweep_prefix)))
          prioritized == CandidateOrder(lan_ip, SubnetHosts(network))
      IN  [candidates |->
             SubSeq(prioritized, 1, Min(Len(prioritized), Max(1, max_hosts))),
           network |-> Some(network)]

\* per_host_timeout = min(0.25, max(0.08, timeout_seconds * 0.35)), on
\* durations in 1/100 ms
PerHostTimeout(timeout_seconds) ==
    Min(Ms(250), Max(Ms(80), (timeout_seconds * 35) \div Hundred))

\* the timeout _try_healthz hands to urlopen: max(0.1, timeout_seconds)
HealthzTimeout(timeout_seconds) == Max(Ms(100), timeout_seconds)

\* the sweep_cidr arguments: absent, blank, text that is no network, an IPv6
\* network, and IPv4 networks around and away from the LAN IP
SweepPlans ==
    LET SweepCidrs ==
          { [kind |-> k, addr |-> 0, prefix |-> 0] :
              k \in {"none", "blank", "bad", "ipv6"} }
          \cup { [kind |-> "cidr", addr |-> n[1], prefix |-> n[2]] :
                   n \in { <<0, 23>>, <<OctetSpan + 50, 31>>,
                           <<OctetSpan + 50, 32>>, <<OctetSpan, 30>>,
                           <<4 * OctetSpan, 29>> } }
    IN
    \* timeout_seconds is the user's timeout after max(0.1, timeout_seconds)
    \* of the engine: 0.1 s, 0.25 s, 0.5 s and the default 0.8 s
    { [lan_ip |-> OctetSpan + d, max_hosts |-> m,
       sweep_prefix |-> p, sweep_cidr |-> c, timeout_seconds |-> Ms(t),
       outcome |-> "pending", candidates |-> << >>, network |-> NoneVal,
       probes |-> << >>, probe_timeout |-> 0] :
        d \in {1, 50}, m \in {-3, 0, 1, 2, 5, 600}, p \in {24, 28, 31},
        c \in SweepCidrs, t \in {100, 250, 500, 800} }

NoSweepPlan == [outcome |-> "none"]

\* _discover_server_subnet_sweep up to the submission of its probes: the
\* candidates are built, an empty list returns None with a message, and
\* otherwise one _try_healthz probe is submitted per candidate, each with
\* per_host_timeout as its timeout_seconds
PlanSweep ==
    /\ sweep_plan.outcome = "pending"
    /\ LET built == BuildSubnetCandidates(
                        sweep_plan.lan_ip, sweep_plan.max_hosts,
                        sweep_plan.sweep_prefix, sweep_plan.sweep_cidr)
       IN  sweep_plan' =
             [sweep_plan EXCEPT
                !.candidates = built.candidates,
                !.network = built.network,
                !.probes = built.candidates,
                !.probe_timeout =
                   IF built.candidates = << >> THEN 0
                   ELSE HealthzTimeout(PerHostTimeout(sweep_plan.timeout_seconds)),
                !.outcome =
                   IF built.candidates # << >> THEN "probing"
                   ELSE IF sweep_plan.sweep_cidr.kind \in {"none", "blank"}
                        THEN "no candidates from LAN IP"
                        ELSE "invalid or empty sweep CIDR"]
    /\ UNCHANGED <<exchange, estimate, loader, display>>

\* ---- the bootstrap loader (src/client/client.py) ----

\* inject_server_arg: ["--server", state_url] is put in front unless a
\* "--server" or "--server=..." token comes before any "--"
InjectServerArg(runtime_args, state_url) ==
    LET is_server(i) == runtime_args[i] \in {"--server", "--server=url"}
        has_server ==
          \E i \in 1 .. Len(runtime_args) :
             /\ is_server(i)
             /\ \A j \in 1 .. i - 1 : runtime_args[j] # "--"
    IN  IF has_server THEN runtime_args
        ELSE <<"--server", state_url>> \o runtime_args

\* the runs of the loader: what the download does (code, a blank body, an
\* error of urlopen), --no-cache, what is at the cache path (nothing, the
\* code of an earlier run, something read_text cannot read), whether
\* write_cache succeeds, and the arguments for the runtime
Loaders ==
    { [download |-> d, no_cache |-> n, cache_before |-> c, cache |-> c,
       writable |-> w, runtime_args |-> a, pc |-> "start", code |-> "none",
       ran_code |-> "none", ran_args |-> << >>, runtime_cache_path |-> "none"] :
        d \in {"code", "blank", "error"}, n \in BOOLEAN,
        c \in {"absent", "old-code", "unreadable"}, w \in BOOLEAN,
        a \in { << >>, <<"--server", "url">>, <<"--server=url">>,
                <<"--", "--server">> } }

NoLoader == [pc |-> "none"]

\* main() up to run_runtime: fetch_runtime_code and write_cache in the try,
\* the cache fallback or the RuntimeError in the except
LoadRuntime ==
    /\ loader.pc = "start"
    /\ LET fetched == loader.download = "code"
           try_ok == fetched /\ (loader.no_cache \/ loader.writable)
           cache_exists == loader.cache # "absent"
       IN  loader' =
             IF try_ok
             THEN [loader EXCEPT
                     !.pc = "loaded", !.code = "downloaded",
                     !.cache = IF loader.no_cache THEN @ ELSE "downloaded-code"]
             ELSE IF loader.no_cache \/ ~cache_exists
             THEN [loader EXCEPT !.pc = "raised"]
             ELSE IF loader.cache = "unreadable"
             THEN [loader EXCEPT !.pc = "raised"]
             ELSE [loader EXCEPT !.pc = "loaded", !.code = "cached"]
    /\ UNCHANGED <<exchange, estimate, sweep_plan, display>>

\* run_runtime(code, runtime_args, runtime_cache_path=...): the code is
\* compiled and executed and its main(argv) called
RunRuntime ==
    /\ loader.pc = "loaded"
    /\ loader' = [loader EXCEPT
                    !.pc = "ran",
                    !.ran_code = loader.code,
                    !.ran_args = InjectServerArg(loader.runtime_args, "state_url"),
                    !.runtime_cache_path =
                       IF loader.no_cache THEN "" ELSE "cache_path"]
    /\ UNCHANGED <<exchange, estimate, sweep_plan, display>>

\* ---- the display client (src/client/.client_runtime_cache.py) ----

\* BetterClockClient.__init__ has run: one poll_once is scheduled.  The
\* runtime endpoint and the cache path may be empty, the hash of the running
\* code may be unknown; polls come every 500 ms or every 1000 ms and the
\* update check is due every 1000 ms.
Displays ==
    { [process |-> "running", pending_polls |-> 1, restart_pending |-> FALSE,
       runtime_update_in_progress |-> FALSE, connected |-> FALSE,
       runtime_endpoint_url |-> e, runtime_cache_path |-> c,
       runtime_hash |-> h, poll_ms |-> p, runtime_update_check_ms |-> 1000,
       since_check_ms |-> 0, polls |-> 0] :
        e \in {"", "url"}, c \in {"", "path"}, h \in {"", "hash-1"},
        p \in {500, 1000} }

NoDisplay == [process |-> "none"]

\* an update whose cache write fails without clearing the flag
ApplyRuntimeUpdate_keeps_flag(d, runtime_hash, write_ok) ==
    IF d.runtime_cache_path = ""
    THEN [d EXCEPT !.runtime_update_in_progress = FALSE, !.connected = TRUE]
    ELSE IF ~write_ok
    THEN [d EXCEPT !.runtime_update_in_progress = TRUE, !.connected = TRUE]
    ELSE [d EXCEPT !.runtime_update_in_progress = TRUE, !.connected = TRUE,
                   !.runtime_hash = runtime_hash, !.restart_pending = TRUE]

\* apply_runtime_update(runtime_code, runtime_hash): without a cache path or
\* when the cache cannot be written the flag is cleared again; otherwise
\* restart_runtime_from_cache is scheduled and the flag stays set
ApplyRuntimeUpdate(d, runtime_hash, write_ok) ==
    IF d.runtime_cache_path = ""
    THEN [d EXCEPT !.runtime_update_in_progress = FALSE, !.connected = TRUE]
    ELSE IF ~write_ok
    THEN [d EXCEPT !.runtime_update_in_progress = FALSE, !.connected = TRUE]
    ELSE [d EXCEPT !.runtime_update_in_progress = TRUE, !.connected = TRUE,
                   !.runtime_hash = runtime_hash, !.restart_pending = TRUE]

\* maybe_check_runtime_update(): `latest` is the hash of the code the server
\* serves, or "error" when fetch_runtime_code_text raises
MaybeCheckRuntimeUpdate(d, latest, write_ok) ==
    IF d.runtime_update_in_progress \/ d.runtime_endpoint_url = ""
       \/ d.since_check_ms < d.runtime_update_check_ms
    THEN d
    ELSE LET checked == [d EXCEPT !.since_check_ms = 0]
         IN  IF latest = "error" THEN checked
             ELSE IF checked.runtime_hash = ""
             THEN [checked EXCEPT !.runtime_hash = latest]
             ELSE IF latest = checked.runtime_hash THEN checked
             ELSE ApplyRuntimeUpdate(checked, latest, write_ok)

\* the Tk timer fires poll_once: fetch, render, update check, and in the
\* finally the next poll unless an update is in progress
PollOnce ==
    /\ display.process = "running"
    /\ display.pending_polls > 0
    /\ display.polls < MaxPolls
    /\ \E fetch_ok, write_ok \in BOOLEAN, latest \in {"error", "hash-1", "hash-2"} :
         LET fired == [display EXCEPT
                         !.pending_polls = @ - 1,
                         !.polls = @ + 1,
                         !.since_check_ms =
                            @ + (IF display.polls = 0 THEN 40 ELSE display.poll_ms)]
             polled == IF fetch_ok
                       THEN MaybeCheckRuntimeUpdate(
                                [fired EXCEPT !.connected = TRUE], latest, write_ok)
                       ELSE [fired EXCEPT !.connected = FALSE]
         IN  display' = IF polled.runtime_update_in_progress THEN polled
                        ELSE [polled EXCEPT !.pending_polls = @ + 1]
    /\ UNCHANGED <<exchange, estimate, sweep_plan, loader>>

\* the Tk timer fires restart_runtime_from_cache: os.execv replaces the
\* process, or raises and polling is taken up again
RestartRuntimeFromCache ==
    /\ display.process = "running"
    /\ display.restart_pending
    /\ \E exec_ok \in BOOLEAN :
         display' =
            IF exec_ok
            THEN [display EXCEPT !.process = "replaced",
                                 !.restart_pending = FALSE,
                                 !.pending_polls = 0]
            ELSE [display EXCEPT !.restart_pending = FALSE,
                                 !.runtime_update_in_progress = FALSE,
                                 !.connected = TRUE,
                                 !.pending_polls = @ + 1]
    /\ UNCHANGED <<exchange, estimate, sweep_plan, loader>>

FunctionsIdle ==
    /\ exchange = NoExchange /\ estimate = NoEstimate
    /\ sweep_plan = NoSweepPlan /\ loader = NoLoader /\ display = NoDisplay

----------------------------------------------------------------------------
(* The specifications *)

Init == SessionInit /\ DiscoveryIdle /\ SweepIdle /\ FunctionsIdle

Next ==
    /\ \/ GetCorrectedTime(StateResponses, {4}, {FRAME_SLEEP_MS})
       \/ GetState
       \/ PassThroughGet
       \/ Disconnect
       \/ Reconnect(DtChoices)
       \/ SetClientId
    /\ UNCHANGED <<discovery_vars, sweep_vars, function_vars>>

Spec == Init /\ [][Next]_vars

NextOffsetModel ==
    /\ \/ GetCorrectedTime(SampleResponses, ElapsedChoices, DtChoices)
       \/ Reconnect({0})
    /\ UNCHANGED <<discovery_vars, sweep_vars, function_vars>>

SpecOffsetModel == Init /\ [][NextOffsetModel]_vars

\* polls of a server 70 s ahead of or behind the client, or without any
\* timestamp, over round trips of 4 ms and of 70 s, with transport failures,
\* unshapable answers and reconnects in between
NextOffsetBounds ==
    /\ \/ GetCorrectedTime(
            { StatePayload(Some(70000), Some(70000), NoneVal, "dict", NoneVal, FALSE),
              StatePayload(Some(-70000), Some(-70000), NoneVal, "dict", NoneVal, FALSE),
              StatePayload(NoneVal, NoneVal, NoneVal, "missing", NoneVal, FALSE),
              StatePayload(Some(70000), Some(70000), NoneVal, "not_dict", NoneVal, FALSE),
              Failure("transport_error") },
            {4, 70000}, {FRAME_SLEEP_MS})
       \/ Reconnect({0})
    /\ UNCHANGED <<discovery_vars, sweep_vars, function_vars>>

SpecOffsetBounds == Init /\ [][NextOffsetBounds]_vars

\* a discovery call with no session yet
SessionIdle == SessionInit /\ instance_id = CallerInstanceId

InitDiscovery == SessionIdle /\ DiscoveryInit /\ SweepIdle /\ FunctionsIdle

NextDiscovery ==
    /\ \/ DiscoveryNext /\ UNCHANGED session_vars
       \/ ConnectAuto
    /\ UNCHANGED <<sweep_vars, function_vars>>

SpecDiscovery == InitDiscovery /\ [][NextDiscovery]_vars

\* a sweep on its own
InitSweep == SessionIdle /\ DiscoveryIdle /\ SweepInit /\ FunctionsIdle

NextSweep ==
    SweepNext /\ UNCHANGED <<session_vars, discovery_vars, function_vars>>

SpecSweep == InitSweep /\ [][NextSweep]_vars

\* _compute_network_sample over its inputs
InitTimestampMath ==
    /\ SessionIdle /\ DiscoveryIdle /\ SweepIdle
    /\ exchange \in Exchanges
    /\ estimate = NoEstimate
    /\ sweep_plan = NoSweepPlan
    /\ loader = NoLoader
    /\ display = NoDisplay

NextTimestampMath ==
    ComputeSample /\ UNCHANGED <<session_vars, discovery_vars, sweep_vars>>

SpecTimestampMath == InitTimestampMath /\ [][NextTimestampMath]_vars

\* _estimate_low_jitter_target over its windows
InitEstimator ==
    /\ SessionIdle /\ DiscoveryIdle /\ SweepIdle
    /\ exchange = NoExchange
    /\ estimate \in Estimates
    /\ sweep_plan = NoSweepPlan
    /\ loader = NoLoader
    /\ display = NoDisplay

NextEstimator ==
    EstimateTarget /\ UNCHANGED <<session_vars, discovery_vars, sweep_vars>>

SpecEstimator == InitEstimator /\ [][NextEstimator]_vars

\* the candidate list and the probes of a sweep over its arguments
InitSweepPlan ==
    /\ SessionIdle /\ DiscoveryIdle /\ SweepIdle
    /\ exchange = NoExchange
    /\ estimate = NoEstimate
    /\ sweep_plan \in SweepPlans
    /\ loader = NoLoader
    /\ display = NoDisplay

NextSweepPlan ==
    PlanSweep /\ UNCHANGED <<session_vars, discovery_vars, sweep_vars>>

SpecSweepPlan == InitSweepPlan /\ [][NextSweepPlan]_vars

\* the bootstrap loader over its runs
InitLoader ==
    /\ SessionIdle /\ DiscoveryIdle /\ SweepIdle
    /\ exchange = NoExchange
    /\ estimate = NoEstimate
    /\ sweep_plan = NoSweepPlan
    /\ loader \in Loaders
    /\ display = NoDisplay

NextLoader ==
    /\ LoadRuntime \/ RunRuntime
    /\ UNCHANGED <<session_vars, discovery_vars, sweep_vars>>

SpecLoader == InitLoader /\ [][NextLoader]_vars

\* the display client from its construction on
InitDisplay ==
    /\ SessionIdle /\ DiscoveryIdle /\ SweepIdle
    /\ exchange = NoExchange
    /\ estimate = NoEstimate
    /\ sweep_plan = NoSweepPlan
    /\ loader = NoLoader
    /\ display \in Displays

NextDisplay ==
    /\ PollOnce \/ RestartRuntimeFromCache
    /\ UNCHANGED <<session_vars, discovery_vars, sweep_vars>>

SpecDisplay == InitDisplay /\ [][NextDisplay]_vars

----------------------------------------------------------------------------
(* Properties of the session *)

IsUpdate(call) == call.op = "get_corrected_time" /\ call.updated

\* C1, as stated: every update of the offset model changes offset_display_ms
\* by at most 240 ms/s times the time elapsed since the previous update.
C1_SlewEveryUpdate ==
    [][IsUpdate(last_call') =>
         Abs(offset_display_ms' - offset_display_ms) * TicksPerSec
           <= OFFSET_SLEW_RATE_MS_PER_SEC * UnitsPerMs
              * (last_offset_update_mono' - last_offset_update_mono)]_vars

\* C1, amended: every update of an initialized offset model (every update but
\* the first after construction or reconnect) changes offset_display_ms by at
\* most 240 ms/s times max(0.001 s, the time elapsed since the previous update).
C1_SlewAfterFirstUpdate ==
    [][(IsUpdate(last_call') /\ offset_initialized) =>
         Abs(offset_display_ms' - offset_display_ms) * TicksPerSec
           <= OFFSET_SLEW_RATE_MS_PER_SEC * UnitsPerMs
              * Max(1, last_offset_update_mono' - last_offset_update_mono)]_vars

\* an update after the first whose desync (over 100 ms) made the slew limit cut
\* the step
C1_Witness ==
    /\ IsUpdate(last_call)
    /\ Len(latency_samples) >= 2
    /\ Abs(offset_desync_ms) > Ms(100)

\* the sample the update appended, and the target of the window with it
NewSample == latency_samples'[Len(latency_samples')]
NewTarget == EstimateLowJitterTarget(latency_samples')
\* an update of a model that was initialized before
LaterUpdate == IsUpdate(last_call') /\ offset_initialized

\* C27: the first update after construction or reconnect sets
\* offset_display_ms to the target offset, which is the offset of the single
\* sample of the window, rtt_ewma_ms to the target rtt, offset_desync_ms to 0
\* and offset_initialized to true, with no gain and no slew limit.
C27_FirstUpdateJumps ==
    [][(IsUpdate(last_call') /\ ~offset_initialized) =>
         /\ Len(latency_samples') = 1
         /\ offset_display_ms' = Offset(NewSample)
         /\ rtt_ewma_ms' = Rtt(NewSample)
         /\ offset_desync_ms' = 0
         /\ offset_initialized']_vars

\* a first update, some time after construction, that jumped by more than
\* 100 ms, far beyond what the slew limit allows
C27_Witness ==
    /\ IsUpdate(last_call)
    /\ Len(latency_samples) = 1
    /\ last_offset_update_mono > 0
    /\ offset_display_ms > Ms(100)
    /\ offset_desync_ms = 0

\* C28: on every update after the first, rtt_ewma_ms becomes
\* 0.75 rtt_ewma_ms + 0.25 target_rtt, offset_desync_ms becomes target_offset
\* minus the offset_display_ms held before, and offset_display_ms grows by
\* desync x gain cut to +/- 240 x max(0.001, dt_sec), the gain being 0.35
\* when the new sample's rtt is within 3 ms of the lowest rtt of the window
\* and 0.16 otherwise.
C28_LaterUpdateFormulas ==
    [][LaterUpdate =>
         LET desync == NewTarget[2] - offset_display_ms
             fast == \A i \in DOMAIN latency_samples' :
                        Rtt(NewSample) <= Rtt(latency_samples'[i])
                                            + Ms(FAST_GAIN_RTT_MARGIN_MS)
             gain == IF fast THEN OFFSET_DESYNC_GAIN_FAST
                     ELSE OFFSET_DESYNC_GAIN_SLOW
             step == RoundDiv(desync * gain, Hundred)
             max_step ==
                (OFFSET_SLEW_RATE_MS_PER_SEC * UnitsPerMs
                   * Max(MIN_DELTA_MS,
                         last_offset_update_mono' - last_offset_update_mono))
                \div TicksPerSec
         IN  /\ rtt_ewma_ms' = RoundDiv((Hundred - ALPHA_RTT) * rtt_ewma_ms
                                          + ALPHA_RTT * NewTarget[1], Hundred)
             /\ offset_desync_ms' = desync
             /\ offset_display_ms' =
                   offset_display_ms + Max(-max_step, Min(step, max_step))]_vars

\* a later update with the slow gain whose step the slew limit did not cut
C28_Witness ==
    /\ IsUpdate(last_call)
    /\ Len(latency_samples) >= 2
    /\ Rtt(latency_samples[Len(latency_samples)])
         > MinRtt(latency_samples) + Ms(FAST_GAIN_RTT_MARGIN_MS)
    /\ offset_desync_ms # 0
    /\ Abs(offset_desync_ms) < Ms(1)

\* C30: every update after the first leaves offset_display_ms between its
\* old value and target_offset (inclusive), so the distance to the target
\* does not grow; when every sample of the window has the same offset V and
\* offset_display_ms is V, it stays V.
C30_NoOvershoot ==
    [][LaterUpdate =>
         /\ Min(offset_display_ms, NewTarget[2]) <= offset_display_ms'
         /\ offset_display_ms' <= Max(offset_display_ms, NewTarget[2])
         /\ Abs(NewTarget[2] - offset_display_ms')
               <= Abs(NewTarget[2] - offset_display_ms)
         /\ (\A i \in DOMAIN latency_samples' :
                Offset(latency_samples'[i]) = offset_display_ms)
               => offset_display_ms' = offset_display_ms]_vars

\* two samples of the same non-zero offset, and offset_display_ms on it
C30_Witness ==
    /\ IsUpdate(last_call)
    /\ Len(latency_samples) >= 2
    /\ \A i \in DOMAIN latency_samples :
          Offset(latency_samples[i]) = offset_display_ms
    /\ offset_display_ms # 0
    /\ last_offset_update_mono > 0

\* C2: while disconnected, every request operation fails with the
\* session-closed error and sends nothing, and the session stays disconnected
\* through every call but reconnect().
C2_ClosedSessionRejects ==
    [][disconnected =>
         /\ last_call'.op \in RequestOps =>
              (last_call'.outcome = "SessionClosed" /\ ~last_call'.sent)
         /\ last_call'.op # "reconnect" => disconnected']_vars

\* a request operation rejected on a disconnected session
C2_Witness ==
    /\ disconnected
    /\ last_call.op \in RequestOps \ {"disconnect"}
    /\ last_call.outcome = "SessionClosed"

\* C3, as stated: once disconnect() has returned the session is disconnected,
\* and every later call on it raises SessionClosed (until reconnect).
C3_DisconnectAlwaysCloses ==
    [][/\ (last_call'.op = "disconnect" /\ last_call'.outcome = "ok")
            => disconnected'
       /\ (disconnected /\ last_call'.op # "reconnect")
            => last_call'.outcome = "SessionClosed"]_vars

\* C3, amended: disconnect() returns with disconnected = true when the
\* server's answer reports disconnected: true, and with disconnected = false
\* when it reports false or nothing; on a disconnected session every later
\* request operation raises SessionClosed (until reconnect).
C3_DisconnectMirrorsServer ==
    [][/\ (last_call'.op = "disconnect" /\ last_call'.outcome = "ok")
            => /\ last_call'.arg = "true" => disconnected'
               /\ last_call'.arg \in {"false", "missing"} => ~disconnected'
       /\ (disconnected /\ last_call'.op \in RequestOps)
            => last_call'.outcome = "SessionClosed"]_vars

\* disconnect() has returned on an answer reporting disconnected: true
C3_Witness ==
    /\ last_call.op = "disconnect"
    /\ last_call.outcome = "ok"
    /\ last_call.arg = "true"
    /\ disconnected

\* C4: reconnect() clears the disconnect flag, the offset model and the window,
\* replaces instance_id exactly when new_instance is true, and leaves client_id
\* and the endpoint alone.
C4_ReconnectResets ==
    [][last_call'.op = "reconnect" =>
         /\ ~disconnected'
         /\ ~offset_initialized'
         /\ offset_display_ms' = 0
         /\ offset_desync_ms' = 0
         /\ rtt_ewma_ms' = 0
         /\ latency_samples' = << >>
         /\ (instance_id' # instance_id) <=> (last_call'.arg = "new_instance=True")
         /\ client_id' = client_id
         /\ endpoint' = endpoint]_vars

\* a reconnect with a new instance id; the clock reading it stamped shows that
\* polls came before it
C4_Witness ==
    /\ last_call.op = "reconnect"
    /\ last_call.arg = "new_instance=True"
    /\ instance_id = GeneratedInstanceId(uuid_draws)
    /\ client_id = "clock-2"
    /\ last_offset_update_mono = MaxMono

\* C10: the window holds at most LATENCY_SAMPLE_WINDOW samples; a successful
\* poll appends one sample (dropping the oldest when full) and a failed poll
\* contributes no sample.
C10_WindowHoldsSuccessfulPolls ==
    [][/\ Len(latency_samples') <= LATENCY_SAMPLE_WINDOW
       /\ (last_call'.op = "get_corrected_time" /\ last_call'.outcome = "ok")
            => /\ Len(latency_samples')
                    = Min(Len(latency_samples) + 1, LATENCY_SAMPLE_WINDOW)
               /\ \A i \in 1 .. Len(latency_samples') - 1 :
                    latency_samples'[i]
                      = latency_samples[i + Len(latency_samples) + 1
                                          - Len(latency_samples')]
       /\ (last_call'.op = "get_corrected_time" /\ last_call'.outcome # "ok")
            => latency_samples' = latency_samples]_vars

\* C11: get_state() and the pass-through GETs leave the offset model and the
\* window as they were, whether they succeed or fail; a request operation
\* that changes the offset model is get_corrected_time.
C11_OnlyPollsUpdateModel ==
    [][/\ last_call'.op \in PassThroughOps \cup {"get_state"}
            => model_vars' = model_vars
       /\ (last_call'.op \in RequestOps /\ model_vars' # model_vars)
            => last_call'.op = "get_corrected_time"]_vars

\* get_state() answered on a session whose offset model holds a correction
C11_Witness ==
    /\ last_call.op = "get_state"
    /\ last_call.outcome = "ok"
    /\ offset_initialized
    /\ offset_display_ms # 0
    /\ Len(latency_samples) >= 2

\* C12: instance_id changes in no poll, GET, disconnect or set_client_id;
\* it changes in reconnect(new_instance=True), and only there.
C12_InstanceIdStable ==
    [][(instance_id' # instance_id)
          <=> (last_call'.op = "reconnect"
               /\ last_call'.arg = "new_instance=True")]_vars

\* C21: an identity-bearing request carries the three offset headers exactly
\* when offset_initialized is true as it is sent, which is never before the
\* first successful get_corrected_time since construction or the last
\* reconnect and always after it; X-Client-Id and X-Client-Instance are on
\* every identity-bearing request, and healthz sends none of the five.
C21_OffsetHeadersAfterSuccessfulPoll ==
    [][/\ (last_call'.sent /\ last_call'.op # "healthz") =>
             /\ ClientHeaders \subseteq last_call'.headers
             /\ offset_initialized => OffsetHeaders \subseteq last_call'.headers
             /\ ~offset_initialized => OffsetHeaders \cap last_call'.headers = {}
       /\ (last_call'.sent /\ last_call'.op = "healthz") =>
             (ClientHeaders \cup OffsetHeaders) \cap last_call'.headers = {}
       /\ (~offset_initialized /\ offset_initialized') =>
             /\ last_call'.op = "get_corrected_time"
             /\ last_call'.outcome = "ok"
       /\ (offset_initialized /\ ~offset_initialized') =>
             last_call'.op = "reconnect"]_vars

\* C25: shaping the JSON object of /v1/state into a StateResponse never
\* raises: no get_state() or get_corrected_time() call ends with an error of
\* _state_from_payload.
C25_ShapingNeverRaises ==
    last_call.op \in {"get_state", "get_corrected_time"}
        => last_call.outcome # "UncaughtError"

\* C26: set_client_id with an empty or whitespace-only name fails with
\* InvalidArgument and leaves client_id as it was; with another name it sets
\* client_id to the trimmed name; in both cases instance_id, disconnected,
\* the offset model and the window do not change.
C26_SetClientIdTrims ==
    [][last_call'.op = "set_client_id" =>
         /\ instance_id' = instance_id
         /\ disconnected' = disconnected
         /\ model_vars' = model_vars
         /\ last_call'.arg \in {"", "  "} =>
               /\ last_call'.outcome = "InvalidArgument"
               /\ client_id' = client_id
         /\ last_call'.arg = " clock-2 " =>
               /\ last_call'.outcome = "ok"
               /\ client_id' = "clock-2"]_vars

\* a whitespace-only name refused on a session that was renamed before and
\* whose offset model holds samples
C26_Witness ==
    /\ last_call.op = "set_client_id"
    /\ last_call.arg = "  "
    /\ last_call.outcome = "InvalidArgument"
    /\ client_id = "clock-2"
    /\ Len(latency_samples) >= 1

\* C29: a get_corrected_time() call that fails leaves the offset model and
\* the sample window exactly as they were before the call.
C29_FailedPollChangesNothing ==
    [][(last_call'.op = "get_corrected_time" /\ last_call'.outcome # "ok")
          => model_vars' = model_vars]_vars

\* a session that still carries the instance id of its construction after an
\* update of the model, a rename and a disconnect
C12_Witness ==
    /\ uuid_draws = 0
    /\ instance_id = CallerInstanceId
    /\ offset_initialized
    /\ client_id = "clock-2"
    /\ disconnected
    /\ last_call.op = "disconnect"

----------------------------------------------------------------------------
(* Properties of discovery *)

StageIndex(stage) == CHOOSE i \in 1 .. Len(StageOrder) : StageOrder[i] = stage

StageEnabled(stage) ==
    CASE stage = "local-healthz" -> d_config.local_first
      [] stage = "cache-healthz" -> d_config.use_cache
      [] stage = "mdns" -> d_config.mdns_first
      [] stage = "udp-broadcast" -> TRUE
      [] stage = "subnet-sweep" -> d_config.subnet_sweep

DiscoveryEnded == d_pc \in {"returned", "raised"}

Probed(stage) == \E i \in 1 .. Len(ran) : ran[i] = stage
HasStep(stage) == \E i \in 1 .. Len(steps) : steps[i].step = stage

\* C5: the stages are probed in the order local-healthz, cache-healthz, mdns,
\* udp-broadcast, subnet-sweep; with stop_on_first the call returns at the
\* first success and probes no later stage; without it, a call that has ended
\* has probed every enabled stage and recorded a step for each.
C5_StagesInOrder ==
    /\ \A i, j \in 1 .. Len(ran) :
         i < j => StageIndex(ran[i]) < StageIndex(ran[j])
    /\ (StopOnFirst /\ found # << >>) =>
         /\ d_pc \in {"returned", "connected", "connect-raised"}
         /\ Len(found) = 1
         /\ ran[Len(ran)] = found[1].via
    /\ (DiscoveryEnded /\ ~StopOnFirst) =>
         \A n \in 1 .. Len(StageOrder) :
            StageEnabled(StageOrder[n]) =>
               Probed(StageOrder[n]) /\ HasStep(StageOrder[n])

\* C6: no stage raises to the caller; every stage probed is recorded as a
\* step with status ok or fail when steps are collected.
C6_NoStageRaises ==
    /\ d_pc # "raised"
    /\ CollectSteps =>
         \A i \in 1 .. Len(ran) :
            \E k \in 1 .. Len(steps) :
               steps[k].step = ran[i] /\ steps[k].status \in {"ok", "fail"}

\* C7: whatever the cache file holds, the cache-healthz stage ends as ok or
\* fail and discovery goes on: the call never ends with an exception raised in
\* the cache-healthz stage.
C7_CacheNeverBreaks ==
    \A i \in 1 .. Len(ran) :
       ran[i] = "cache-healthz" => ~(d_pc = "raised" /\ i = Len(ran))

\* the cache file holds the endpoint of `result`
CacheHoldsEndpoint(result) ==
    /\ cache_content.kind = "object"
    /\ cache_content.base_url = result.base_url
    /\ cache_content.ip = result.ip
    /\ cache_content.port = result.port

SavedByItsStage(result) == result.via # "cache-healthz"

C17_FullReport ==
    (d_pc = "returned" /\ CollectSteps /\ (d_config.full_scan \/ found = << >>)) =>
        /\ Len(steps) = Len(StageOrder)
        /\ \A n \in 1 .. Len(steps) :
              /\ steps[n].step = StageOrder[n]
              /\ StageEnabled(StageOrder[n]) => steps[n].status \in {"ok", "fail"}
              /\ ~StageEnabled(StageOrder[n]) => steps[n].status = "skipped"
              /\ steps[n].status = "ok" <=> ~IsNone(steps[n].discovery)

\* everything disabled but the UDP probe, and nobody answers it: four
\* skipped steps and udp-broadcast: fail
C17_Witness ==
    /\ d_pc = "returned"
    /\ CollectSteps
    /\ \A n \in {1, 2, 3, 5} : ~StageEnabled(StageOrder[n])
    /\ Len(steps) = 5
    /\ \A n \in {1, 2, 3, 5} : steps[n].status = "skipped"
    /\ steps[4] = ScanStep("udp-broadcast", "fail", NoneVal)

\* C18: connect_auto fails with NoServerDiscovered exactly when the engine
\* returned no result; when it returned one, connect_auto returns a fresh
\* Session (not disconnected, offset model not initialized, empty window) on
\* the discovered base_url, local exactly when the discovered ip is 127.0.0.1.
C18_ConnectAutoOutcome ==
    (d_config.entry = "connect_auto" /\ d_pc \in {"connected", "connect-raised"}) =>
        /\ raised_error = "NoServerDiscovered" <=> IsNone(d_selected)
        /\ ~IsNone(d_selected) =>
              /\ d_pc = "connected"
              /\ ~disconnected
              /\ ~offset_initialized
              /\ latency_samples = << >>
              /\ endpoint.base_url = Val(d_selected).base_url
              /\ endpoint.local <=> Val(d_selected).ip = LOCALHOST_IP

\* C19: a DiscoveryResult saved to a writable cache path and loaded again
\* comes back with the same base_url, ip, port, service, version and via.
C19_CacheRoundTrip ==
    (fs_writable /\ cache_writes # << >>) =>
        \E cached \in {LoadCachedDiscovery(cache_content)} :
            /\ ~cached.raises
            /\ cached.result = Some(cache_writes[Len(cache_writes)])

\* the datagram the UDP stage stopped at
LastHeard == udp_heard[Len(udp_heard)]

\* C20: the UDP stage accepts a datagram only if it is a JSON object with
\* service "betterclock" whose api_port and version are integers; every other
\* datagram is ignored (the stage does not raise on it); the result takes
\* its ip from the source address, its port from api_port and its version
\* from version.
C20_UdpAcceptsOnlyResponses ==
    /\ ~(d_pc = "raised" /\ ran[Len(ran)] = "udp-broadcast")
    /\ \A i \in 1 .. Len(found) :
          found[i].via = "udp-broadcast" =>
             /\ LastHeard.json = "object"
             /\ LastHeard.service = DISCOVERY_SERVICE_NAME
             /\ LastHeard.api_port.t = "int"
             /\ LastHeard.version \in IntTokens
             /\ found[i].ip = LastHeard.source
             /\ found[i].port = LastHeard.api_port.n
             /\ found[i].version = LastHeard.version

\* the steps of the report with status ok, in stage order
OkSteps == SelectSeq(steps, LAMBDA st : st.status = "ok")

\* C33: in every ScanReport selected is none exactly when no step has status
\* ok, and is otherwise the endpoint of the first step with status ok; and a
\* call of discover_server or scan_report, with or without full_scan, selects
\* the endpoint a stop-on-first call selects in the same environment: the
\* first one a stage finds, and none when no stage finds one.
C33_SelectsFirstOk ==
    (d_config.entry \in {"discover_server", "scan_report"} /\ DiscoveryEnded) =>
        /\ (d_pc = "returned" /\ CollectSteps) =>
              IF OkSteps = << >> THEN IsNone(d_selected)
              ELSE d_selected = OkSteps[1].discovery
        /\ found # << >> => (d_pc = "returned" /\ d_selected = Some(found[1]))
        /\ (found = << >> /\ d_pc = "returned") => IsNone(d_selected)

\* C34: every DiscoveryResult a call of discover_server, scan_report or
\* connect_auto returns has port > 0 and a non-empty ip, and its via names
\* the stage that produced it.
C34_ResultsAreEndpoints ==
    (d_pc \in {"returned", "connected", "connect-raised"}
     /\ ~IsNone(d_selected)) =>
        /\ Val(d_selected).port > 0
        /\ Val(d_selected).ip # ""
        /\ Probed(Val(d_selected).via)

\* C35: with use_cache=false no stage of discovery reads or writes the cache
\* file, whichever stages succeed or fail; and a cache-healthz probe that
\* fails leaves the cache file as it was.
C35_CacheUntouched ==
    [][/\ ~d_config.use_cache =>
             /\ cache_content' = cache_content
             /\ cache_writes' = << >>
             /\ \A i \in 1 .. Len(ran') : ran'[i] # "cache-healthz"
       /\ (ran' = Append(ran, "cache-healthz") /\ found' = found) =>
             cache_content' = cache_content]_vars

\* a full scan without the cache, of an environment with a cache file, in
\* which two stages found a server
C35_Witness ==
    /\ ~d_config.use_cache
    /\ d_pc = "returned"
    /\ Len(found) >= 2
    /\ cache_content.kind = "object"
    /\ fs_writable

----------------------------------------------------------------------------
(* Properties of the subnet sweep *)

SomeProbeOk == \E i \in Candidates : probe_outcome[i] = "ok"

\* C9: whatever the interleaving of the workers, a sweep in which some probe
\* returns ok returns one success whose ip is a candidate whose probe returned
\* ok, scanned k of N with 1 <= k <= N, and what completes after the decision
\* changes nothing; a sweep in which no probe returns ok returns a failure;
\* nothing is returned before.
C9_SweepReturnsOneWinner ==
    /\ sweep_pc \in {"start", "collecting"} => sweep_result = NoSweepResult
    /\ sweep_pc \in {"shutdown", "returned"} =>
         IF SomeProbeOk
         THEN /\ sweep_result.kind = "success"
              /\ sweep_result.ip \in Candidates
              /\ probe_outcome[sweep_result.ip] = "ok"
              /\ sweep_result.scanned = scanned
              /\ 1 <= sweep_result.scanned
              /\ sweep_result.scanned <= n_candidates
              /\ sweep_result.total = n_candidates
         ELSE sweep_result = SweepFailure(n_candidates)

\* a sweep returned a candidate that was not the first ok one of the list,
\* after a probe that was not ok, while another probe was never looked at
C9_Witness ==
    /\ sweep_pc = "returned"
    /\ sweep_result.kind = "success"
    /\ sweep_result.scanned >= 2
    /\ \E j \in Candidates : j < sweep_result.ip /\ probe_outcome[j] = "ok"
    /\ \E j \in Candidates : future_state[j] = "done"

----------------------------------------------------------------------------
(* Properties of the timestamp math *)

\* the call of the exchange returned a sample
Sampled == exchange.outcome = "sample"
\* t2 and t3 as the parser hands them to the math
ExchangeT2 == ParseServerTimestamps(exchange.payload)[1]
ExchangeT3 == ParseServerTimestamps(exchange.payload)[2]
HasPair == ~IsNone(ExchangeT2) /\ ~IsNone(ExchangeT3)
\* (t4 - t1) - (t3 - t2), in ms
PairRttMs ==
    (exchange.client_recv_ms - exchange.client_send_ms)
        - (Val(ExchangeT3) - Val(ExchangeT2))
\* t3 - (t1 + t4) / 2, in 1/100 ms
SendMinusMidpoint ==
    Ms(Val(ExchangeT3))
        - (Ms(exchange.client_send_ms + exchange.client_recv_ms) \div 2)
RttBound == Ms(MAX_REASONABLE_RTT_MS)
OffsetBound == Ms(MAX_REASONABLE_OFFSET_MS)

\* C13: every sample of the timestamp math has 0 <= rtt <= 60000 ms and
\* -60000 ms <= offset <= 60000 ms; a wall-clock rtt or a send-minus-midpoint
\* offset at the bound is kept as it is, one beyond the bound becomes the
\* bound.
C13_SampleWithinBounds ==
    Sampled =>
        /\ 0 <= exchange.sample[1] /\ exchange.sample[1] <= RttBound
        /\ -OffsetBound <= exchange.sample[2]
        /\ exchange.sample[2] <= OffsetBound
        /\ ~HasPair =>
              /\ exchange.fallback_rtt_ms <= RttBound
                    => exchange.sample[1] = exchange.fallback_rtt_ms
              /\ exchange.fallback_rtt_ms > RttBound
                    => exchange.sample[1] = RttBound
        /\ (~HasPair /\ ~IsNone(ExchangeT3)) =>
              /\ Abs(SendMinusMidpoint) <= OffsetBound
                    => exchange.sample[2] = SendMinusMidpoint
              /\ SendMinusMidpoint > OffsetBound
                    => exchange.sample[2] = OffsetBound
              /\ SendMinusMidpoint < -OffsetBound
                    => exchange.sample[2] = -OffsetBound

\* a wall-clock rtt beyond the bound was clamped, next to an offset that sits
\* exactly on its bound
C13_Witness ==
    /\ Sampled
    /\ ~HasPair
    /\ ~IsNone(ExchangeT3)
    /\ exchange.fallback_rtt_ms > RttBound
    /\ exchange.sample[1] = RttBound
    /\ SendMinusMidpoint = OffsetBound
    /\ exchange.sample[2] = OffsetBound

\* C14 as stated: with t2 and t3 present the rtt is (t4-t1)-(t3-t2), or
\* rtt_wall_ms when that value is negative or no finite number.
C14_PairRttUnclamped ==
    (Sampled /\ HasPair) =>
        exchange.sample[1] =
            IF PairRttMs < 0 \/ Abs(Ms(PairRttMs)) > FloatMax
            THEN exchange.fallback_rtt_ms
            ELSE Ms(PairRttMs)

\* C14: with t2 and t3 present the rtt is (t4-t1)-(t3-t2), or rtt_wall_ms
\* when that value is negative or no finite number, in both cases limited
\* to 60000 ms.
C14_PairRtt ==
    (Sampled /\ HasPair) =>
        exchange.sample[1] =
            Min(RttBound,
                IF PairRttMs < 0 \/ Abs(Ms(PairRttMs)) > FloatMax
                THEN exchange.fallback_rtt_ms
                ELSE Ms(PairRttMs))

\* the server held the request for 2 of the 4 ms the exchange took
C14_Witness ==
    /\ Sampled
    /\ HasPair
    /\ PairRttMs = 2
    /\ exchange.sample[1] = Ms(2)
    /\ exchange.fallback_rtt_ms = Ms(4)

\* C15: a payload without the (t2, t3) pair gives rtt = rtt_wall_ms, and
\* offset = t3 - (t1+t4)/2 when a send timestamp is there, offset = 0 when
\* none is.
C15_NoPairSample ==
    (exchange.outcome # "pending" /\ ~HasPair) =>
        /\ Sampled
        /\ exchange.sample[1] = exchange.fallback_rtt_ms
        /\ exchange.sample[2] =
              IF IsNone(ExchangeT3) THEN 0 ELSE SendMinusMidpoint

----------------------------------------------------------------------------
(* Properties of the estimator *)

\* 1/(1+rtt)^2 of the sample at index i, in units of 1/WeightScale
WeightAt(w, i) ==
    LET d == 1 + (Rtt(w[i]) \div UnitsPerMs) IN WeightScale \div (d * d)

\* sum over the indices in I of weight, or of weight * field k
WeightedSum(w, I, k) ==
    LET S[n \in 0..Len(w)] ==
            IF n = 0 THEN 0
            ELSE S[n - 1] + (IF n \in I
                             THEN WeightAt(w, n) * (IF k = 0 THEN 1 ELSE w[n][k])
                             ELSE 0)
    IN  S[Len(w)]

\* value is the weighted mean of field k over the samples at I, to the
\* nearest unit
IsWeightedMean(value, w, I, k) ==
    2 * Abs(value * WeightedSum(w, I, 0) - WeightedSum(w, I, k))
        <= WeightedSum(w, I, 0)

\* the samples within 8 ms of the lowest rtt of the window
NearBest(w) ==
    { i \in DOMAIN w :
        \A j \in DOMAIN w : Rtt(w[i]) <= Rtt(w[j]) + Ms(LOW_RTT_HEADROOM_MS) }

\* the selections the rule allows: the samples near the best rtt when they
\* are at least 5, else 5 samples of lowest rtt (all of a shorter window)
Selections(w) ==
    IF Cardinality(NearBest(w)) >= LOW_RTT_SAMPLE_FLOOR THEN {NearBest(w)}
    ELSE { I \in SUBSET DOMAIN w :
             /\ Cardinality(I) = Min(Len(w), LOW_RTT_SAMPLE_FLOOR)
             /\ \A i \in I : \A j \in DOMAIN w \ I : Rtt(w[i]) <= Rtt(w[j]) }

\* C16: the target of a non-empty window is the weighted mean, with weights
\* 1/(1+rtt)^2, of the selected samples only (those within 8 ms of the lowest
\* rtt, or the 5 of lowest rtt when these are fewer than 5), so target_offset
\* and target_rtt lie between the smallest and the largest value selected.
C16_TargetIsMeanOfSelected ==
    estimate.outcome = "target" =>
        \E I \in Selections(estimate.window) :
            /\ IsWeightedMean(estimate.target[1], estimate.window, I, 1)
            /\ IsWeightedMean(estimate.target[2], estimate.window, I, 2)
            /\ \E i \in I : estimate.window[i][1] <= estimate.target[1]
            /\ \E i \in I : estimate.window[i][1] >= estimate.target[1]
            /\ \E i \in I : estimate.window[i][2] <= estimate.target[2]
            /\ \E i \in I : estimate.window[i][2] >= estimate.target[2]

\* a window of six samples, four of them near the best rtt: five are
\* selected and the slowest one is left out
C16_Witness ==
    /\ estimate.outcome = "target"
    /\ Len(estimate.window) = MaxWindow
    /\ Cardinality(NearBest(estimate.window)) = LOW_RTT_SAMPLE_FLOOR - 1
    /\ \E i \in DOMAIN estimate.window :
            estimate.window[i][2] < estimate.target[2]

\* C32: in every state of a session offset_initialized is true exactly when
\* latency_samples is non-empty, and once true it stays true until
\* reconnect().
C32_InitializedIffSamples ==
    [][/\ offset_initialized <=> latency_samples # << >>
       /\ offset_initialized' <=> latency_samples' # << >>
       /\ (offset_initialized /\ ~offset_initialized') =>
              last_call'.op = "reconnect"]_vars

\* a second poll has fed the model, and it is still initialized
C32_Witness ==
    /\ IsUpdate(last_call)
    /\ offset_initialized
    /\ Len(latency_samples) = 2

----------------------------------------------------------------------------
(* Properties of the session over out-of-range samples *)

\* C31: in every state of a session, after any sequence of polls, reconnects
\* and failures, offset_display_ms lies within -60000 .. 60000 ms and
\* rtt_ewma_ms within 0 .. 60000 ms.
C31_ModelWithinBounds ==
    /\ -Ms(MAX_REASONABLE_OFFSET_MS) <= offset_display_ms
    /\ offset_display_ms <= Ms(MAX_REASONABLE_OFFSET_MS)
    /\ 0 <= rtt_ewma_ms
    /\ rtt_ewma_ms <= Ms(MAX_REASONABLE_RTT_MS)

\* polls of a server 70 s behind over round trips of 70 s: the samples were
\* cut to the bounds and the model sits on both of them
C31_Witness ==
    /\ Len(latency_samples) >= 2
    /\ offset_display_ms = -Ms(MAX_REASONABLE_OFFSET_MS)
    /\ rtt_ewma_ms = Ms(MAX_REASONABLE_RTT_MS)

----------------------------------------------------------------------------
(* Properties of the candidate list of a sweep *)

PlanDone == sweep_plan.outcome \notin {"none", "pending"}
PlanLan == sweep_plan.lan_ip
PlanGateway == (PlanLan \div OctetSpan) * OctetSpan + 1
\* the host addresses of the target network
PlanHosts ==
    LET network == Val(sweep_plan.network)
        size == 2 ^ (32 - network.prefix)
    IN  IF network.prefix >= 31 THEN network.base .. network.base + size - 1
        ELSE network.base + 1 .. network.base + size - 2
\* the place of a host in the order of the claim: the LAN IP, the gateway,
\* the hosts inside the /24 of the LAN IP, the hosts outside it
PlanRank(h) ==
    IF h = PlanLan THEN -2
    ELSE IF h = PlanGateway THEN -1
    ELSE IF h \div OctetSpan = PlanLan \div OctetSpan THEN h % OctetSpan
    ELSE OctetSpan + h

\* C22: the candidate list holds host addresses of the target network without
\* duplicates: the LAN IP first and the x.y.z.1 gateway next when they are
\* hosts of the network, then the hosts inside the /24 of the LAN IP and then
\* the others, each group in the order of the network; it is the first
\* max(1, max_hosts) entries of that order, and the sweep submits exactly one
\* probe per entry, so exactly one probe when max_hosts is 1.
C22_CandidateList ==
    (PlanDone /\ ~IsNone(sweep_plan.network)) =>
        LET c == sweep_plan.candidates
        IN  /\ \A i \in 1 .. Len(c) : c[i] \in PlanHosts
            /\ \A i \in 1 .. Len(c) - 1 : PlanRank(c[i]) < PlanRank(c[i + 1])
            /\ Len(c) = Min(Cardinality(PlanHosts),
                            Max(1, sweep_plan.max_hosts))
            /\ \A h \in PlanHosts :
                 (\A i \in 1 .. Len(c) : c[i] # h) =>
                     PlanRank(h) > PlanRank(c[Len(c)])
            /\ PlanLan \in PlanHosts => c[1] = PlanLan
            /\ (PlanLan \in PlanHosts /\ PlanGateway \in PlanHosts
                /\ PlanGateway # PlanLan /\ Len(c) >= 2) => c[2] = PlanGateway
            /\ sweep_plan.probes = c
            /\ sweep_plan.max_hosts = 1 => Len(sweep_plan.probes) = 1

\* a sweep of 192.168.0.0/23 from 192.168.1.50 with room for every host: the
\* LAN IP, the gateway, 192.168.1.0 and on through the /24 of the LAN IP, and
\* the hosts of 192.168.0.x after them
C22_Witness ==
    /\ PlanDone
    /\ sweep_plan.sweep_cidr.kind = "cidr"
    /\ Len(sweep_plan.probes) = 2 * OctetSpan - 2
    /\ sweep_plan.candidates[1] = OctetSpan + 50
    /\ sweep_plan.candidates[2] = OctetSpan + 1
    /\ sweep_plan.candidates[3] = OctetSpan
    /\ sweep_plan.candidates[OctetSpan - 1] = 2 * OctetSpan - 2
    /\ sweep_plan.candidates[OctetSpan] = 1

\* C23: an explicit sweep CIDR of /31 gives an empty candidate list, and one
\* of /32 a list of a single host.
C23_PointToPointCidrs ==
    (PlanDone /\ sweep_plan.sweep_cidr.kind = "cidr") =>
        /\ sweep_plan.sweep_cidr.prefix = 31 => sweep_plan.candidates = << >>
        /\ sweep_plan.sweep_cidr.prefix = 32 => Len(sweep_plan.candidates) = 1

\* C24: a sweep CIDR that is no IPv4 network is reported as InvalidArgument.
C24_BadCidrIsInvalidArgument ==
    (PlanDone /\ sweep_plan.sweep_cidr.kind \in {"bad", "ipv6"}) =>
        sweep_plan.outcome = "InvalidArgument"

\* C38: each probe of the sweep runs with the timeout
\* min(0.25, max(0.08, user_timeout * 0.35)) seconds, for every user_timeout
\* of 0.1 s or more.
C38_ProbeTimeout ==
    sweep_plan.outcome = "probing" =>
        sweep_plan.probe_timeout =
            Min(Ms(250), Max(Ms(80), (sweep_plan.timeout_seconds * 35) \div Hundred))

----------------------------------------------------------------------------
(* Properties of the display client *)

\* C36: in the display client at most one poll callback is pending at any
\* time; after every poll_once, whether the fetch succeeded or failed, the
\* next poll is scheduled unless a runtime update is in progress; every
\* failed runtime update (no cache path, cache write failure, restart
\* failure) clears runtime_update_in_progress and polling resumes: while the
\* process has not been replaced, either a poll is pending or an update is in
\* progress with its restart pending.
C36_PollingNeverStalls ==
    display.process = "running" =>
        /\ display.pending_polls <= 1
        /\ ~display.runtime_update_in_progress => display.pending_polls = 1
        /\ display.runtime_update_in_progress =>
              (display.restart_pending /\ display.pending_polls = 0)
        /\ display.restart_pending => display.runtime_update_in_progress

\* an update was written to the cache and the restart failed: the flag is
\* clear again and the next poll is pending
C36_Witness ==
    /\ display.process = "running"
    /\ display.runtime_hash = "hash-2"
    /\ ~display.restart_pending
    /\ ~display.runtime_update_in_progress
    /\ display.pending_polls = 1
    /\ display.polls >= 3

----------------------------------------------------------------------------
(* Properties of the bootstrap loader *)

\* C37: when the download of the runtime succeeds, the downloaded code is
\* the code the loader runs; cached code is run only when the download
\* failed, caching is enabled and the cache file exists; when the download
\* fails and caching is disabled or there is no cache file, the loader raises
\* and runs nothing.
C37_LoaderRunsDownload ==
    loader.pc \in {"ran", "raised"} =>
        /\ loader.download = "code" =>
              (loader.pc = "ran" /\ loader.ran_code = "downloaded")
        /\ loader.ran_code = "cached" =>
              /\ loader.download # "code"
              /\ ~loader.no_cache
              /\ loader.cache_before # "absent"
        /\ (loader.download # "code"
            /\ (loader.no_cache \/ loader.cache_before = "absent")) =>
              (loader.pc = "raised" /\ loader.ran_code = "none")

====
